---- MODULE Spec2Model ----
(***************************************************************************)
(* A model of the gerrit-linter checker daemon: the poll loop, the bounded *)
(* work queue, the serve loop with executeCheck and checkChange, and the   *)
(* formatting engine they call.                                            *)
(***************************************************************************)
EXTENDS Integers, Sequences, FiniteSets, TLC

\* ------------------------------------------------------------------ bounds

\* Number of (change, patchset) pairs the review platform knows.
NumChanges == 2

\* How many cycles of pendingLoop a behaviour follows.
MaxPolls == 4

\* How many items the channel holds when Serve starts, in the specification
\* of the serve loop alone.
MaxQueued == 2

\* Capacity of the todo channel: make(chan *gerrit.PendingChecksInfo, 5).
QueueCap == 5

\* How many offers since the last receive the history variable burst keeps:
\* one more than the channel holds.
MaxBurst == QueueCap + 1

\* How many times the token refresh loop fetches a token.
MaxRefresh == 3

\* Number of goroutines that sign requests with the token cache.
NumClients == 2

\* How many checkers the review platform reports to the list action.
MaxCheckers == 2

\* How many files a request to Format holds.
MaxFiles == 3

\* How many per-file messages checkChange returns to executeCheck.
MaxMsgs == 2

\* How many calls of toolFormatter.Format the process makes, possibly at the
\* same time.
NumToolCalls == 2

\* ----------------------------------------------------------------- strings

HasPrefix(s, p) == Len(s) >= Len(p) /\ SubSeq(s, 1, Len(p)) = p

HasSuffix(s, p) == Len(s) >= Len(p) /\ SubSeq(s, Len(s) - Len(p) + 1, Len(s)) = p

TrimPrefix(s, p) == IF HasPrefix(s, p) THEN SubSeq(s, Len(p) + 1, Len(s)) ELSE s

\* Position of the first occurrence of the one-character string c in s, 0 if none.
IndexByte(s, c) ==
    LET hits == {i \in 1..Len(s) : SubSeq(s, i, i) = c}
    IN  IF hits = {} THEN 0 ELSE CHOOSE i \in hits : \A j \in hits : i <= j

\* strings.Split(s, sep) for a one-character separator.
RECURSIVE Split(_, _)
Split(s, sep) ==
    LET i == IndexByte(s, sep)
    IN  IF i = 0 THEN <<s>>
        ELSE <<SubSeq(s, 1, i - 1)>> \o Split(SubSeq(s, i + 1, Len(s)), sep)

\* strings.Join(elems, sep).
RECURSIVE Join(_, _)
Join(elems, sep) ==
    IF elems = <<>> THEN ""
    ELSE IF Len(elems) = 1 THEN elems[1]
    ELSE elems[1] \o sep \o Join(Tail(elems), sep)

Last(s) == s[Len(s)]

\* strings.Repeat(str, n).
RECURSIVE Repeat(_, _)
Repeat(str, n) ==
    IF n = 0 THEN ""
    ELSE LET half == Repeat(str, n \div 2)
         IN  half \o half \o (IF n % 2 = 1 THEN str ELSE "")

\* All orderings of a finite set, as sequences (Go's map iteration order).
RECURSIVE Orderings(_)
Orderings(S) ==
    IF S = {} THEN {<<>>}
    ELSE UNION {{<<x>> \o rest : rest \in Orderings(S \ {x})} : x \in S}

\* --------------------------------------------------------- checker UUIDs

checkerScheme == "fmt"

\* checkerLanguage: the language of a checker UUID, and whether it parsed.
checkerLanguage(uuid) ==
    LET fields == Split(TrimPrefix(uuid, checkerScheme \o ":"), "-")
    IN  IF Len(fields) # 2 THEN [lang |-> "", ok |-> FALSE]
        ELSE [lang |-> fields[1], ok |-> TRUE]

\* ------------------------------------------------ checker administration

\* The repository names of the model.
Repos == {"gerrit", "plugins/checks", "a-b"}

\* fmt.Sprintf("%x", sha1(repo)): the SHA-1 digests of the model's
\* repository names, as lowercase hex.
sha1Hex(repo) ==
    CASE repo = "gerrit" -> "3b97070d46ccd66422a8e7b83e6967ed84780538"
      [] repo = "plugins/checks" -> "32a6afec70f4970b2d5c481d77cf9f6759a56e36"
      [] repo = "a-b" -> "34fafddda8f42376094beb762e514a67b6f019e7"

\* A variant that leaves out the '-' between the language and the digest.
checkerUUIDNoDash(language, repo) ==
    checkerScheme \o ":" \o language \o sha1Hex(repo)

\* PostChecker: fmt.Sprintf("%s:%s-%x", checkerScheme, language, hash.Sum(nil)).
checkerUUID(language, repo) ==
    checkerScheme \o ":" \o language \o "-" \o sha1Hex(repo)

checkersPath == "a/plugins/checks/checkers/"

\* gerritChecker.PostChecker(repo, language, update): the path it posts to.
PostCheckerPath(uuid, update) ==
    IF update THEN checkersPath \o uuid ELSE checkersPath

\* PostChecker(s, repo, language, create) of the command's main file: the
\* path it posts to.
PostCheckerPathCreate(uuid, create) ==
    IF ~create THEN checkersPath \o uuid ELSE checkersPath

\* The loop of ListCheckers over the decoded list: the UUIDs it keeps.
FilterCheckers(out) ==
    SelectSeq(out, LAMBDA o : HasPrefix(o, checkerScheme \o ":")
                               /\ checkerLanguage(o).ok)

\* -------------------------------------------------------- platform JSON

jsonPrefix == ")]}'"

\* json.Marshal of a list of strings without characters that need escaping.
Encode(doc) ==
    "[" \o Join([i \in 1..Len(doc) |-> "\"" \o doc[i] \o "\""], ",") \o "]"

\* A JSON string literal without escapes: quoted, no quote inside.
IsStringLiteral(str) ==
    /\ Len(str) >= 2
    /\ SubSeq(str, 1, 1) = "\"" /\ SubSeq(str, Len(str), Len(str)) = "\""
    /\ IndexByte(SubSeq(str, 2, Len(str) - 1), "\"") = 0

\* json.Unmarshal into a list of strings: the list, or a syntax error.
Decode(str) ==
    IF ~(HasPrefix(str, "[") /\ HasSuffix(str, "]"))
    THEN [err |-> "invalid character", val |-> <<>>]
    ELSE
      LET inner == SubSeq(str, 2, Len(str) - 1)
          parts == IF inner = "" THEN <<>> ELSE Split(inner, ",")
      IN  IF \E i \in 1..Len(parts) : ~IsStringLiteral(parts[i])
          THEN [err |-> "invalid character", val |-> <<>>]
          ELSE [err |-> "",
                val |-> [i \in 1..Len(parts) |->
                            SubSeq(parts[i], 2, Len(parts[i]) - 1)]]

\* A variant that strips the prefix when it is there and decodes in any case.
UnmarshalLenient(content) == Decode(TrimPrefix(content, jsonPrefix))

\* gerrit.Unmarshal(content, dest): err and what dest holds afterwards.
Unmarshal(content) ==
    IF ~HasPrefix(content, jsonPrefix)
    THEN [err |-> "prefix \")]}'\" not found, got "
                     \o (IF Len(content) > 100 THEN SubSeq(content, 1, 100)
                         ELSE content),
          val |-> <<>>]
    ELSE Decode(TrimPrefix(content, jsonPrefix))

\* ------------------------------------------------------- check statuses

statusUnset == "UNSET"
statusRunning == "RUNNING"
statusFail == "FAILED"
statusSuccessful == "SUCCESSFUL"
statusIrrelevant == "IRRELEVANT"

Terminal == {statusSuccessful, statusFail, statusIrrelevant}

\* ------------------------------------------------------ formatting engine

\* The language tags a registry can hold (init registers the last three only
\* when their tool is on the executable search path).
Languages == {"commitmsg", "java", "bzl", "go"}

\* The registries the model starts from: commitmsg is always registered.
Registries == {{"commitmsg", "go", "bzl"}, {"commitmsg", "go", "bzl", "java"}}

\* FormatterConfig.Regex.MatchString(name) of the registry entry of a language.
RegexMatch(language, name) ==
    CASE language = "commitmsg" -> name = "/COMMIT_MSG"
      [] language = "java" -> HasSuffix(name, ".java")
      [] language = "bzl" ->
            HasSuffix(name, ".bzl") \/ HasSuffix(name, "/BUILD") \/ name = "BUILD"
      [] language = "go" -> HasSuffix(name, ".go")
      [] OTHER -> FALSE

\* A variant that also rejects a subject of exactly 70 characters.
checkCommitMessageAtLeast(msg) ==
    LET lines == Split(msg, "\n")
    IN  IF Len(lines) < 2 THEN "must have multiple lines"
        ELSE IF Len(lines[2]) > 1
            THEN "subject and body must be separated by blank line"
        ELSE IF Len(lines[1]) >= 70 THEN "subject must be less than 70 chars"
        ELSE IF HasSuffix(lines[1], ".") THEN "subject must not end in '.'"
        ELSE ""

\* checkCommitMessage: the complaint about a commit message, "" if none.
checkCommitMessage(msg) ==
    LET lines == Split(msg, "\n")
    IN  IF Len(lines) < 2 THEN "must have multiple lines"
        ELSE IF Len(lines[2]) > 1
            THEN "subject and body must be separated by blank line"
        ELSE IF Len(lines[1]) > 70 THEN "subject must be less than 70 chars"
        ELSE IF HasSuffix(lines[1], ".") THEN "subject must not end in '.'"
        ELSE ""

\* commitMsgFormatter.Format: one result, for the first file only; a complaint
\* leaves Content nil, which compares equal to empty content.
commitMsgFormat(in) ==
    LET complaint == checkCommitMessage(in[1].Content)
    IN  [err |-> "",
         out |-> << [Name |-> in[1].Name,
                     Content |-> IF complaint # "" THEN "" ELSE in[1].Content,
                     Message |-> complaint] >>]

\* toolFormatter.Format: the external tool either exits non-zero (no results)
\* or leaves, for every file, the content toolOut gives it. Message is unset.
toolFormat(in, toolOk, toolOut) ==
    IF ~toolOk THEN [err |-> "exit status 1", out |-> <<>>]
    ELSE [err |-> "",
          out |-> [i \in 1..Len(in) |->
                      [Name |-> in[i].Name,
                       Content |-> toolOut[in[i].Name],
                       Message |-> ""]]]

\* splitByLang(in)[language]: the files of one language, in request order.
RECURSIVE FilesOfLang(_, _)
FilesOfLang(files, language) ==
    IF files = <<>> THEN <<>>
    ELSE (IF files[1].Language = language THEN <<files[1]>> ELSE <<>>)
            \o FilesOfLang(Tail(files), language)

\* The loop of Format over the language groups, in the order langs; buf is
\* never written, so out[0].Message is set to "" when it was "". invoked
\* lists the languages whose formatter was called.
RECURSIVE FormatGroups(_, _, _, _, _, _)
FormatGroups(registry, files, langs, toolFails, toolOut, acc) ==
    IF langs = <<>>
    THEN [err |-> "", files |-> acc, panic |-> FALSE, invoked |-> <<>>]
    ELSE
      LET language == langs[1]
          fs == FilesOfLang(files, language)
      IN  IF language \notin registry
          THEN [err |-> "", files |-> acc, panic |-> TRUE, invoked |-> <<>>]
          ELSE
            LET res == IF language = "commitmsg" THEN commitMsgFormat(fs)
                       ELSE toolFormat(fs, language \notin toolFails, toolOut)
            IN  IF res.err # ""
                THEN [err |-> res.err, files |-> acc, panic |-> FALSE,
                      invoked |-> <<language>>]
                ELSE
                  LET rest == FormatGroups(registry, files, Tail(langs), toolFails,
                                           toolOut, acc \o res.out)
                  IN  [rest EXCEPT !.invoked = <<language>> \o @]

\* A variant that looks at the language of the first file only.
FormatFirstFile(registry, files, langs, toolFails, toolOut) ==
    IF files # <<>> /\ files[1].Language = ""
    THEN [err |-> "file \"" \o files[1].Name \o "\" has empty language",
          files |-> <<>>, panic |-> FALSE, invoked |-> <<>>]
    ELSE FormatGroups(registry, files, langs, toolFails, toolOut, <<>>)

\* Format(req, rep): langs is the order in which the groups of splitByLang
\* are visited; files holds what rep.Files has when Format returns.
Format(registry, files, langs, toolFails, toolOut) ==
    LET empties == {i \in 1..Len(files) : files[i].Language = ""}
    IN  IF empties # {}
        THEN LET i == CHOOSE k \in empties : \A j \in empties : k <= j
             IN  [err |-> "file \"" \o files[i].Name \o "\" has empty language",
                  files |-> <<>>, panic |-> FALSE, invoked |-> <<>>]
        ELSE FormatGroups(registry, files, langs, toolFails, toolOut, <<>>)

\* ------------------------------------------------------------ checkChange

errIrrelevant == "irrelevant"

\* A variant that puts every file of the change in the request.
MatchedFilesUnfiltered(ch, order, language) ==
    [i \in 1..Len(order) |->
        [Language |-> language, Name |-> order[i], Content |-> ch[order[i]].Content]]

\* A variant that leaves the deleted files out of the request.
MatchedFilesPresent(ch, order, language) ==
    SelectSeq([i \in 1..Len(order) |->
                  [Language |-> language, Name |-> order[i],
                   Content |-> ch[order[i]].Content]],
              LAMBDA f : RegexMatch(language, f.Name) /\ ch[f.Name].Status # "D")

\* The loop of checkChange over ch.Files, in the order the map yields them:
\* a file is put in the request when cfg.Regex matches its name.
RECURSIVE MatchedFiles(_, _, _)
MatchedFiles(ch, order, language) ==
    IF order = <<>> THEN <<>>
    ELSE (IF RegexMatch(language, order[1])
          THEN << [Language |-> language, Name |-> order[1],
                   Content |-> ch[order[1]].Content] >>
          ELSE <<>>) \o MatchedFiles(ch, Tail(order), language)

\* The loop of checkChange over rep.Files: the complaints, or the error for a
\* result that names no file of the change.
RECURSIVE Complaints(_, _, _)
Complaints(ch, files, msgs) ==
    IF files = <<>> THEN [msgs |-> msgs, err |-> ""]
    ELSE
      LET f == files[1]
      IN  IF f.Name \notin DOMAIN ch
          THEN [msgs |-> <<>>, err |-> "result had unknown file \"" \o f.Name \o "\""]
          ELSE IF f.Content # ch[f.Name].Content
          THEN Complaints(ch, Tail(files),
                          Append(msgs, f.Name \o ": " \o
                                 (IF f.Message = "" THEN "found a difference"
                                  ELSE f.Message)))
          ELSE Complaints(ch, Tail(files), msgs)

\* A variant that sends the request on even when it holds no file.
noFilesIgnored(req) == FALSE

\* len(req.Files) == 0.
noFiles(req) == req = <<>>

NoCheck == [msgs |-> <<>>, err |-> "", fetched |-> FALSE, req |-> <<>>,
            invoked |-> FALSE, rep |-> <<>>]

\* checkChange(changeID, psID, language): fetchOk and ch are what GetChange
\* returns, order is the iteration order of ch.Files, toolOk and toolOut what
\* the external tool does. The result also records the request and the reply.
checkChange(registry, fetchOk, ch, order, language, toolOk, toolOut) ==
    IF ~fetchOk THEN [NoCheck EXCEPT !.err = "Get: status 500"]
    ELSE IF order # <<>> /\ language \notin registry
    THEN [NoCheck EXCEPT !.fetched = TRUE,
                         !.err = "language \"" \o language \o "\" not configured"]
    ELSE
      LET req == MatchedFiles(ch, order, language)
      IN  IF noFiles(req)
          THEN [NoCheck EXCEPT !.fetched = TRUE, !.err = errIrrelevant]
          ELSE
            LET rep == Format(registry, req, <<language>>,
                              IF toolOk THEN {} ELSE {language}, toolOut)
            IN  IF rep.err # ""
                THEN [NoCheck EXCEPT !.fetched = TRUE, !.req = req,
                                     !.invoked = TRUE, !.err = rep.err]
                ELSE
                  LET c == Complaints(ch, rep.files, <<>>)
                  IN  [msgs |-> c.msgs, err |-> c.err, fetched |-> TRUE,
                       req |-> req, invoked |-> TRUE, rep |-> rep.files]

\* A variant that looks at the complaints only, whatever the error.
statusOfComplaints(err, msgs) ==
    IF Len(msgs) = 0 THEN statusSuccessful ELSE statusFail

\* The if/else chain of executeCheck over what checkChange returned.
statusOf(err, msgs) ==
    IF err = errIrrelevant THEN statusIrrelevant
    ELSE IF err # "" THEN statusFail
    ELSE IF Len(msgs) = 0 THEN statusSuccessful
    ELSE statusFail

\* A variant that reports the error as it is.
toolFailureBare(err) == err

\* fmt.Sprintf("tool failure: %v", err).
toolFailure(err) == "tool failure: " \o err

\* A variant that keeps 1000 characters in front of the "...".
truncateKeepingLimit(msg) ==
    IF Len(msg) > 1000 THEN SubSeq(msg, 1, 1000) \o "..." ELSE msg

\* if len(msg) > 1000 { msg = msg[:995] + "..." }.
truncate(msg) ==
    IF Len(msg) > 1000 THEN SubSeq(msg, 1, 995) \o "..." ELSE msg

\* The part of executeCheck between the two posts: the terminal status and
\* the message derived from what checkChange returned.
Verdict(res) ==
    LET msgs == IF res.err # "" /\ res.err # errIrrelevant
                THEN <<toolFailure(res.err)>> ELSE res.msgs
    IN  [status |-> statusOf(res.err, res.msgs),
         msg |-> truncate(Join(msgs, ", "))]

\* ------------------------------------------------- the review platform

PatchSets == 1..NumChanges

\* The pending_checks keys the platform reports for a patch set: a current
\* fmt:<language>-<hex> UUID per language, or a legacy fmt:<hex> UUID.
PendingUUIDs(ps) ==
    CASE ps % 3 = 1 -> {"fmt:go-a1", "fmt:java-a1"}
      [] ps % 3 = 2 -> {"fmt:0a0b", "fmt:commitmsg-b2"}
      [] OTHER -> {"fmt:commitmsg-c3", "fmt:bzl-c3"}

\* The same platform with one checker per repository.
SingleUUID(ps) ==
    CASE ps % 3 = 1 -> {"fmt:go-a1"}
      [] ps % 3 = 2 -> {"fmt:0a0b"}
      [] OTHER -> {"fmt:1c2d"}

\* The files GetChange returns for a patch set (Content is fetched for every
\* file whose Status is not "D").
ChangeFiles(ps) ==
    CASE ps % 3 = 1 ->
            [n \in {"/COMMIT_MSG", "pkg/x.go", "Readme.md"} |->
                [Status |-> "M",
                 Content |-> CASE n = "/COMMIT_MSG" -> "Fix bug\n\nDetails"
                               [] n = "pkg/x.go" -> "package x\n"
                               [] OTHER -> "readme"]]
      [] ps % 3 = 2 ->
            [n \in {"/COMMIT_MSG", "a/BUILD"} |->
                [Status |-> "A",
                 Content |-> IF n = "/COMMIT_MSG" THEN "Fix bug.\n\nDetails"
                             ELSE "cc_library()"]]
      [] OTHER ->
            [n \in {"/COMMIT_MSG", "BUILD", "old.bzl"} |->
                [Status |-> IF n = "old.bzl" THEN "D" ELSE "M",
                 Content |-> CASE n = "/COMMIT_MSG" -> "Fix bug\n\nDetails"
                               [] n = "old.bzl" -> ""
                               [] OTHER -> "cc_binary()"]]

\* The names of a change that the filename rule of a language matches.
MatchedNames(ch, language) == {n \in DOMAIN ch : RegexMatch(language, n)}

\* What an external tool can leave in the files it was given (those of one
\* language): it rewrites some of them and leaves the others as they were.
ToolOutputs(ch, language) ==
    {[n \in DOMAIN ch |-> IF n \in W THEN ch[n].Content \o " " ELSE ch[n].Content] :
        W \in SUBSET MatchedNames(ch, language)}

\* Iteration orders of ch.Files, one for each order in which the files of
\* the language can come out of the map.
IterationOrders(ch, language) ==
    LET others == CHOOSE o \in Orderings(DOMAIN ch \ MatchedNames(ch, language)) : TRUE
    IN  {others \o m : m \in Orderings(MatchedNames(ch, language))}

\* ------------------------------------------------------------------ state

VARIABLES
    Formatters,   \* the languages registered in linter.Formatters
    checks,       \* platform: checks[ps][uuid] is the state of that check
    todo,         \* gerritChecker.todo, the buffered channel
    pollPc,       \* pendingLoop: "sleep" or "offer" (inside the range loop)
    pending,      \* pendingLoop: the result of the last query
    pidx,         \* pendingLoop: index of the next result to offer
    polls,        \* pendingLoop: the number of cycles begun
    dropped,      \* the patch sets dropped since the last query that succeeded
    prevDropped,  \* the patch sets dropped between the two last such queries
    burst,        \* the items offered to todo since Serve last received
    servePc,      \* Serve: "recv" (at the range) or "call" (in executeCheck)
    runs          \* the executeCheck invocations that have not returned

daemonVars == <<Formatters, checks, todo, pollPc, pending, pidx, polls, dropped,
                prevDropped, burst, servePc, runs>>

VARIABLES
    current,      \* tokenCache.current: <<>> for nil, <<token>> otherwise
    mu,           \* tokenCache.mu: <<>> when free, else <<"loop", 0>> or <<"auth", c>>
    loopPc,       \* tokenCache.loop: "off", "start", "sleep", "fetch", "lock", "write"
    delaySecs,    \* tokenCache.loop: the local delaySecs
    tok,          \* tokenCache.loop: the local tok of the last fetchToken
    waited,       \* the seconds the last time.Sleep of the loop lasted
    refreshes,    \* the number of fetchToken calls the loop has made
    authPc,       \* Authenticate of each client: "idle", "check", "set"
    authSeen,     \* what each client read at the nil check
    authRes       \* what the last Authenticate of each client produced

tokenVars == <<current, mu, loopPc, delaySecs, tok, waited, refreshes,
               authPc, authSeen, authRes>>

VARIABLES
    flags,        \* main: the command-line flags after flag.Parse
    mainPc,       \* main: "flags", "auth", "probe", "action", "serve", "exit0", "fatal"
    requests,     \* the requests main and the actions it runs have issued
    fatal,        \* the message of the log.Fatal that ended the process, if any
    reply,        \* the last response body handed to gerrit.Unmarshal, and its result
    listed        \* what ListCheckers returned

mainVars == <<flags, mainPc, requests, fatal, reply, listed>>

VARIABLES
    conn,         \* the last call of a Connector operation, and what it returned
    lint,         \* a commit message and a file name, and what the linter made of them
    formatCall,   \* a request handed to Format, and what Format left in the reply
    tools,        \* the calls of toolFormatter.Format and the temporary directories
    judge,        \* what checkChange returned to executeCheck, and the verdict
    pair,         \* one checker UUID run on two changes, and the two outcomes
    batch,        \* one language group of Format handed to an external tool
    fetch,        \* one call of GetChange: the answers, the requests, the result
    outcome       \* checkChange on the change of fetch, and the verdict

\* The state of the library operations that are exercised on their own.
libVars == <<conn, lint, formatCall, tools, judge, pair, batch, fetch, outcome>>

\* What the daemon's loops never touch.
nonDaemonVars == <<tokenVars, mainVars, libVars>>

vars == <<daemonVars, tokenVars, mainVars, libVars>>

\* No Connector operation was called.
NoCall == [op |-> "", method |-> "", url |-> "", status |-> 0, sent |-> <<>>,
           body |-> "", http |-> [err |-> "", body |-> ""],
           res |-> [err |-> "", val |-> <<>>]]

\* Nothing was handed to the linter.
NoLint == [msg |-> "", name |-> "", checked |-> FALSE, complaint |-> "",
           rep |-> <<>>, verdict |-> [status |-> statusUnset, msg |-> ""],
           classified |-> FALSE, langs |-> {}]

\* Format was not called.
NoFormat == [registry |-> {}, files |-> <<>>, toolFails |-> {}, done |-> FALSE,
             langs |-> <<>>,
             rep |-> [err |-> "", files |-> <<>>, panic |-> FALSE,
                      invoked |-> <<>>]]

ToolCalls == 1..NumToolCalls

\* A call of toolFormatter.Format that has not begun: no directory (0).
NoToolCall == [pc |-> "idle", dir |-> 0, i |-> 0, out |-> 0, err |-> ""]

\* No call of toolFormatter.Format has begun and no directory was made.
NoTools == [calls |-> [c \in ToolCalls |-> NoToolCall], dirs |-> {}, made |-> 0]

\* executeCheck has nothing to judge.
NoJudge == [err |-> "", msgs |-> <<>>, done |-> FALSE,
            posted |-> [status |-> statusUnset, msg |-> ""]]

\* No checker UUID is being compared on two changes.
NoPair == [uuid |-> "", language |-> "", ch1 |-> <<>>, ch2 |-> <<>>,
           order |-> <<>>, done |-> FALSE, res1 |-> NoCheck, res2 |-> NoCheck,
           v1 |-> [status |-> "", msg |-> ""], v2 |-> [status |-> "", msg |-> ""]]

\* The external tool was not run: its exit code, what it wrote to standard
\* output and standard error, and the files it rewrote.
NoRun == [exit |-> 0, stdout |-> "", stderr |-> "", rewrote |-> {}]

\* No language group is being formatted.
NoBatch == [files |-> <<>>, run |-> NoRun, done |-> FALSE,
            res |-> [err |-> "", files |-> <<>>, logged |-> ""]]

\* GetChange was not called.
NoFetch == [listStatus |-> 0, listJSON |-> FALSE, files |-> <<>>, answers |-> <<>>,
            order |-> <<>>, done |-> FALSE, requested |-> <<>>,
            res |-> [err |-> "", val |-> <<>>]]

\* checkChange was not called on a fetched change.
NoOutcome == [uuid |-> "", language |-> "", toolOk |-> TRUE, toolOut |-> <<>>,
              done |-> FALSE, res |-> NoCheck,
              posted |-> [status |-> statusUnset, msg |-> ""]]

\* No library operation is exercised on its own.
NoLib ==
    /\ conn = NoCall
    /\ lint = NoLint
    /\ formatCall = NoFormat
    /\ tools = NoTools
    /\ judge = NoJudge
    /\ pair = NoPair
    /\ batch = NoBatch
    /\ fetch = NoFetch
    /\ outcome = NoOutcome

pollVars == <<pollPc, pending, pidx, polls, dropped, prevDropped>>

Clients == 1..NumClients

\* A nil *gcpToken.
Nil == <<>>

\* A process that does not use the cloud-metadata provider: no token cache.
NoTokenCache ==
    /\ current = Nil
    /\ mu = <<>>
    /\ loopPc = "off"
    /\ delaySecs = 0
    /\ tok = Nil
    /\ waited = 0
    /\ refreshes = 0
    /\ authPc = [c \in Clients |-> "idle"]
    /\ authSeen = [c \in Clients |-> Nil]
    /\ authRes = [c \in Clients |-> ""]

\* One request as main's log keeps it; uuid is the UUID of the checker
\* document a POST carries.
Request(method, path, uuid) == [method |-> method, path |-> path, uuid |-> uuid]

probePath == "a/accounts/self"

NoReply == [sent |-> <<>>, body |-> "", res |-> [err |-> "", val |-> <<>>]]

\* main has reached gc.Serve(): one authentication provider, the identity
\* probe answered, no administrative action selected.
MainServingWith(authFile, gcp) ==
    /\ flags = [gerrit |-> "https://gerrit.example.com", register |-> FALSE,
                update |-> FALSE, list |-> FALSE, authFile |-> authFile,
                gcp |-> gcp, repo |-> "", language |-> ""]
    /\ mainPc = "serve"
    /\ requests = << Request("GET", probePath, "") >>
    /\ fatal = ""
    /\ reply = NoReply
    /\ listed = <<>>

MainServing == MainServingWith("/etc/auth", "")

\* The daemon after NewGerritChecker: pendingLoop started, nothing queued.
Init ==
    /\ NoLib
    /\ NoTokenCache
    /\ MainServing
    /\ Formatters = {"commitmsg", "go", "bzl"}
    /\ checks = [ps \in PatchSets |-> [u \in SingleUUID(ps) |-> statusUnset]]
    /\ todo = <<>>
    /\ pollPc = "sleep"
    /\ pending = <<>>
    /\ pidx = 1
    /\ polls = 0
    /\ dropped = {}
    /\ prevDropped = {}
    /\ burst = <<>>
    /\ servePc = "recv"
    /\ runs = {}

\* ------------------------------------------------------------- poll loop

\* PendingChecksByScheme: one record per patch set with a check that has not
\* been started (the platform's default for a query that names no state), in
\* the platform's order.
RECURSIVE PendingFrom(_, _)
PendingFrom(cs, ps) ==
    IF ps > NumChanges THEN <<>>
    ELSE
      LET uu == {u \in DOMAIN cs[ps] : cs[ps][u] = statusUnset}
      IN  (IF uu = {} THEN <<>> ELSE << [PatchSet |-> ps, PendingChecks |-> uu] >>)
            \o PendingFrom(cs, ps + 1)

PendingChecksByScheme(cs) == PendingFrom(cs, 1)

\* A variant whose channel has no capacity limit.
OfferUnbounded(q, pc) == Append(q, pc)

\* A variant that makes room for the pending check by dropping the oldest
\* item of a full channel.
OfferDropOldest(q, pc) ==
    IF Len(q) < QueueCap THEN Append(q, pc) ELSE Append(Tail(q), pc)

\* A variant that sends the pending check twice when there is room.
OfferTwice(q, pc) == IF Len(q) < QueueCap THEN Append(Append(q, pc), pc) ELSE q

\* select { case c.todo <- pc: default: }: the channel after the offer.
Offer(q, pc) == IF Len(q) < QueueCap THEN Append(q, pc) ELSE q

\* A variant that leaves the range loop at the first result it drops.
AfterOfferBreak(results, i, queued) ==
    IF queued /\ i < Len(results) THEN [pc |-> "offer", idx |-> i + 1]
    ELSE [pc |-> "sleep", idx |-> 1]

\* The position of pendingLoop after it has offered pending[i]: both branches
\* of the select go on with the range loop.
AfterOffer(results, i, queued) ==
    IF i < Len(results) THEN [pc |-> "offer", idx |-> i + 1]
    ELSE [pc |-> "sleep", idx |-> 1]

\* One cycle of pendingLoop up to the range loop: sleep, then the query.
PollQuery ==
    /\ pollPc = "sleep"
    /\ polls < MaxPolls
    /\ polls' = polls + 1
    /\ \E ok \in BOOLEAN :
         LET res == IF ok THEN PendingChecksByScheme(checks) ELSE <<>>
         IN  /\ pending' = res
             /\ pidx' = 1
             /\ pollPc' = IF res = <<>> THEN "sleep" ELSE "offer"
             /\ prevDropped' = IF ok THEN dropped ELSE prevDropped
             /\ dropped' = IF ok THEN {} ELSE dropped
    /\ UNCHANGED nonDaemonVars
    /\ UNCHANGED <<Formatters, checks, todo, burst, servePc, runs>>

\* One iteration of the range loop of pendingLoop: the non-blocking send.
PollOffer ==
    /\ pollPc = "offer"
    /\ LET pc == pending[pidx]
           q == Offer(todo, pc)
           next == AfterOffer(pending, pidx, q # todo)
       IN  /\ todo' = q
           /\ dropped' = IF q = todo THEN dropped \cup {pc.PatchSet} ELSE dropped
           /\ burst' = IF Len(burst) < MaxBurst THEN Append(burst, pc) ELSE burst
           /\ pollPc' = next.pc
           /\ pidx' = next.idx
           /\ pending' = IF next.pc = "sleep" THEN <<>> ELSE pending
    /\ UNCHANGED nonDaemonVars
    /\ UNCHANGED <<Formatters, checks, polls, prevDropped, servePc, runs>>

\* ------------------------------------------------------------ serve loop

\* The frame of a fresh executeCheck(pc): at the head of the range loop over
\* pc.PendingChecks, nothing posted yet.
NewRun(pc) ==
    [pc |-> pc, remaining |-> pc.PendingChecks,
     phase |-> IF pc.PendingChecks = {} THEN "ret" ELSE "loop",
     uuid |-> "", status |-> statusUnset, msg |-> "", check |-> NoCheck,
     posts |-> <<>>, err |-> ""]

\* A variant that starts executeCheck in a goroutine of its own.
AfterRecvAsync == "recv"

\* Where Serve is after it has received an item and called executeCheck: it
\* waits in the call until executeCheck returns.
AfterRecv == "call"

\* for p := range gc.todo { gc.executeCheck(p) }: receive and call.
ServeRecv ==
    /\ servePc = "recv"
    /\ todo # <<>>
    /\ runs' = runs \cup {NewRun(Head(todo))}
    /\ todo' = Tail(todo)
    /\ burst' = Tail(todo)
    /\ servePc' = AfterRecv
    /\ UNCHANGED nonDaemonVars
    /\ UNCHANGED <<Formatters, checks, pollVars>>

\* One PostCheck as the run records it: prior is the state the platform held
\* for the check when the post arrived.
PostEntry(cs, ps, uuid, state, msg, ok) ==
    [ps |-> ps, uuid |-> uuid, state |-> state, msg |-> msg, ok |-> ok,
     prior |-> cs[ps][uuid]]

\* The platform after a PostCheck that succeeded.
Posted(cs, ps, uuid, state) == [cs EXCEPT ![ps][uuid] = state]

\* A variant that does not announce the check as RUNNING.
AfterRunningUnset(cs, r, uuid, ok) ==
    LET entry == PostEntry(cs, r.pc.PatchSet, uuid, statusUnset, "", ok)
        base == [r EXCEPT !.uuid = uuid, !.remaining = r.remaining \ {uuid},
                          !.status = statusUnset, !.msg = "", !.check = NoCheck,
                          !.posts = Append(r.posts, entry)]
    IN  IF ~ok THEN [base EXCEPT !.phase = "ret", !.err = "Post: status 500"]
        ELSE IF ~checkerLanguage(uuid).ok
        THEN [base EXCEPT !.phase = "ret",
                          !.err = "uuid \"" \o uuid \o "\" had unknown language"]
        ELSE [base EXCEPT !.phase = "check"]

\* executeCheck from the head of the loop body to the call of checkChange:
\* the RUNNING post for uuid, then checkerLanguage.
AfterRunning(cs, r, uuid, ok) ==
    LET entry == PostEntry(cs, r.pc.PatchSet, uuid, statusRunning, "", ok)
        base == [r EXCEPT !.uuid = uuid, !.remaining = r.remaining \ {uuid},
                          !.status = statusUnset, !.msg = "", !.check = NoCheck,
                          !.posts = Append(r.posts, entry)]
    IN  IF ~ok THEN [base EXCEPT !.phase = "ret", !.err = "Post: status 500"]
        ELSE IF ~checkerLanguage(uuid).ok
        THEN [base EXCEPT !.phase = "ret",
                          !.err = "uuid \"" \o uuid \o "\" had unknown language"]
        ELSE [base EXCEPT !.phase = "check"]

ExecPostRunning ==
    \E r \in runs :
      /\ r.phase = "loop"
      /\ \E uuid \in r.remaining, ok \in BOOLEAN :
           LET nr == AfterRunning(checks, r, uuid, ok)
           IN  /\ runs' = (runs \ {r}) \cup {nr}
               /\ checks' = IF ok THEN Posted(checks, r.pc.PatchSet, uuid,
                                              Last(nr.posts).state)
                            ELSE checks
      /\ UNCHANGED nonDaemonVars
      /\ UNCHANGED <<Formatters, todo, pollVars, burst, servePc>>

\* A variant that goes on with the next UUID when the terminal post failed.
AfterCheckContinuing(cs, r, res, ok) ==
    LET v == Verdict(res)
        entry == PostEntry(cs, r.pc.PatchSet, r.uuid, v.status, v.msg, ok)
        base == [r EXCEPT !.check = res, !.status = v.status, !.msg = v.msg,
                          !.posts = Append(r.posts, entry)]
    IN  IF r.remaining = {} THEN [base EXCEPT !.phase = "ret"]
        ELSE [base EXCEPT !.phase = "loop"]

\* executeCheck from the call of checkChange to the head of the loop, or to
\* the return when the terminal post failed or no UUID is left: checkChange,
\* the verdict, the terminal post.
AfterCheck(cs, r, res, ok) ==
    LET v == Verdict(res)
        entry == PostEntry(cs, r.pc.PatchSet, r.uuid, v.status, v.msg, ok)
        base == [r EXCEPT !.check = res, !.status = v.status, !.msg = v.msg,
                          !.posts = Append(r.posts, entry)]
    IN  IF ~ok THEN [base EXCEPT !.phase = "ret", !.err = "Post: status 500"]
        ELSE IF r.remaining = {} THEN [base EXCEPT !.phase = "ret"]
        ELSE [base EXCEPT !.phase = "loop"]

ExecCheckChange ==
    \E r \in runs :
      /\ r.phase = "check"
      /\ LET ch == ChangeFiles(r.pc.PatchSet)
             language == checkerLanguage(r.uuid).lang
         IN  \E fetchOk \in BOOLEAN, toolOk \in BOOLEAN, ok \in BOOLEAN,
                order \in IterationOrders(ch, language),
                toolOut \in ToolOutputs(ch, language) :
               LET res == checkChange(Formatters, fetchOk, ch, order, language,
                                      toolOk, toolOut)
                   nr == AfterCheck(checks, r, res, ok)
               IN  /\ runs' = (runs \ {r}) \cup {nr}
                   /\ checks' = IF ok THEN Posted(checks, r.pc.PatchSet, r.uuid,
                                                  Last(nr.posts).state)
                                ELSE checks
      /\ UNCHANGED nonDaemonVars
      /\ UNCHANGED <<Formatters, todo, pollVars, burst, servePc>>

\* executeCheck returns to Serve, which logs the error, if any, and goes back
\* to the range.
ServeReturn ==
    \E r \in runs :
      /\ r.phase = "ret"
      /\ runs' = runs \ {r}
      /\ servePc' = "recv"
      /\ UNCHANGED nonDaemonVars
      /\ UNCHANGED <<Formatters, checks, todo, pollVars, burst>>

Next ==
    \/ PollQuery
    \/ PollOffer
    \/ ServeRecv
    \/ ExecPostRunning
    \/ ExecCheckChange
    \/ ServeReturn

Spec == Init /\ [][Next]_vars

\* ------------------------------------------- the serve loop on its own

\* The items pendingLoop can have queued while no check has been started.
QueuedItems == {[PatchSet |-> ps, PendingChecks |-> PendingUUIDs(ps)] : ps \in PatchSets}

\* Serve with up to MaxQueued items already in the channel, on a platform
\* with two checkers per repository, under either registry.
InitExec ==
    /\ NoLib
    /\ NoTokenCache
    /\ MainServing
    /\ Formatters \in Registries
    /\ checks = [ps \in PatchSets |-> [u \in PendingUUIDs(ps) |-> statusUnset]]
    /\ todo \in UNION {[1..n -> QueuedItems] : n \in 1..MaxQueued}
    /\ burst = todo
    /\ pollPc = "sleep"
    /\ pending = <<>>
    /\ pidx = 1
    /\ polls = 0
    /\ dropped = {}
    /\ prevDropped = {}
    /\ servePc = "recv"
    /\ runs = {}

NextExec ==
    \/ ServeRecv
    \/ ExecPostRunning
    \/ ExecCheckChange
    \/ ServeReturn

SpecExec == InitExec /\ [][NextExec]_vars

TypeOK ==
    /\ Formatters \in Registries
    /\ Len(todo) <= QueueCap
    /\ pollPc \in {"sleep", "offer"}
    /\ servePc \in {"recv", "call"}

\* ------------------------------------------------------------------ main

\* The command lines of the model.
FlagSets ==
    [gerrit : {"", "https://gerrit.example.com"},
     register : BOOLEAN, update : BOOLEAN, list : BOOLEAN,
     authFile : {"", "/etc/auth"}, gcp : {"", "default"},
     repo : {"", "gerrit", "a-b"}, language : {"", "go", "java"}]

\* The UUIDs of the checkers the platform can report.
UUIDSamples == {"fmt:go-a1", "fmt:cobol-b2", "fmt:0a0b", "lint:go-c3"}

\* The checker lists the platform can report, in its order.
Docs == UNION {[1..n -> UUIDSamples] : n \in 0..MaxCheckers}

\* A sign-in page, longer than 100 bytes.
LoginPage == "<!DOCTYPE html>" \o Repeat("<p>Sign in</p>", 8)

\* The response bodies the platform can send for a document: with the
\* prefix, without it, a page that is no JSON, and the prefix before no JSON.
Bodies(doc) ==
    {jsonPrefix \o Encode(doc), Encode(doc), LoginPage, jsonPrefix \o LoginPage}

\* A variant that lets main go on without --auth_file.
mustSetAuthFileOptional(authFile) == ""

\* if *authFile == "" { log.Fatal("must set --auth_file") }.
mustSetAuthFile(authFile) ==
    IF authFile = "" THEN "must set --auth_file" ELSE ""

\* The selection of the authentication provider: the configuration error, ""
\* when exactly one of --auth_file and --gcp_service_account is set. Without
\* --gcp_service_account it is the check of --auth_file.
authProblem(authFile, gcp) ==
    IF gcp = "" THEN mustSetAuthFile(authFile)
    ELSE IF authFile # ""
    THEN "cannot set both --auth_file and --gcp_service_account"
    ELSE ""

\* A variant that sends the first request whatever the probe answered.
AfterProbeIgnored(ok) == "action"

\* Where main goes after the GET of a/accounts/self.
AfterProbe(ok) == IF ok THEN "action" ELSE "fatal"

\* A variant that does not look the language up in the registry.
usageProblemAnyLanguage(repo, language, registry) ==
    IF repo = "" THEN "need to set --repo"
    ELSE IF language = "" THEN "must set --language."
    ELSE ""

\* The checks of main before PostChecker: the message of the log.Fatalf, ""
\* if none.
usageProblem(repo, language, registry) ==
    IF repo = "" THEN "need to set --repo"
    ELSE IF language = "" THEN "must set --language."
    ELSE IF language \notin registry THEN "language is not supported."
    ELSE ""

\* main before anything ran, on a platform where only the first patch set
\* has a check that was not started.
InitMain ==
    /\ NoLib
    /\ NoTokenCache
    /\ Formatters = {"commitmsg", "go", "bzl"}
    /\ checks = [ps \in PatchSets |->
                    [u \in SingleUUID(ps) |->
                        IF ps = 1 THEN statusUnset ELSE statusSuccessful]]
    /\ todo = <<>>
    /\ pollPc = "sleep"
    /\ pending = <<>>
    /\ pidx = 1
    /\ polls = 0
    /\ dropped = {}
    /\ prevDropped = {}
    /\ burst = <<>>
    /\ servePc = "recv"
    /\ runs = {}
    /\ flags \in FlagSets
    /\ mainPc = "flags"
    /\ requests = <<>>
    /\ fatal = ""
    /\ reply = NoReply
    /\ listed = <<>>

\* if *gerritURL == "" { log.Fatal("must set --gerrit") }.
MainStart ==
    /\ mainPc = "flags"
    /\ IF flags.gerrit = ""
       THEN mainPc' = "fatal" /\ fatal' = "must set --gerrit"
       ELSE mainPc' = "auth" /\ fatal' = fatal
    /\ UNCHANGED <<daemonVars, tokenVars, libVars, flags, requests, reply, listed>>

\* The authentication provider: the configuration check, then reading the
\* credentials (the file, or the metadata service), which can fail.
MainAuth ==
    /\ mainPc = "auth"
    /\ LET problem == authProblem(flags.authFile, flags.gcp)
       IN  IF problem # ""
           THEN mainPc' = "fatal" /\ fatal' = problem
           ELSE \E ok \in BOOLEAN :
                  IF ok THEN mainPc' = "probe" /\ fatal' = fatal
                  ELSE mainPc' = "fatal" /\ fatal' = "reading credentials failed"
    /\ UNCHANGED <<daemonVars, tokenVars, libVars, flags, requests, reply, listed>>

\* g.GetPath("a/accounts/self"), fatal when it fails.
MainProbe ==
    /\ mainPc = "probe"
    /\ requests' = Append(requests, Request("GET", probePath, ""))
    /\ \E ok \in BOOLEAN :
         /\ mainPc' = AfterProbe(ok)
         /\ fatal' = IF ok THEN fatal ELSE "accounts/self: Get: status 401"
    /\ UNCHANGED <<daemonVars, tokenVars, libVars, flags, reply, listed>>

\* if *list: ListCheckers, print, os.Exit(0).
MainList ==
    /\ mainPc = "action"
    /\ flags.list
    /\ requests' = Append(requests, Request("GET", checkersPath, ""))
    /\ \E ok \in BOOLEAN, doc \in Docs :
         \E body \in Bodies(doc) :
           IF ~ok
           THEN /\ mainPc' = "fatal"
                /\ fatal' = "ListCheckers: Get: status 500"
                /\ UNCHANGED <<reply, listed>>
           ELSE
             LET res == Unmarshal(body)
             IN  /\ reply' = [sent |-> doc, body |-> body, res |-> res]
                 /\ IF res.err # ""
                    THEN /\ mainPc' = "fatal"
                         /\ fatal' = "List: " \o res.err
                         /\ listed' = listed
                    ELSE /\ mainPc' = "exit0"
                         /\ fatal' = fatal
                         /\ listed' = FilterCheckers(res.val)
    /\ UNCHANGED <<daemonVars, tokenVars, libVars, flags>>

\* if *register || *update: the usage checks, PostChecker, os.Exit(0).
MainPostChecker ==
    /\ mainPc = "action"
    /\ ~flags.list
    /\ flags.register \/ flags.update
    /\ LET problem == usageProblem(flags.repo, flags.language, Formatters)
           uuid == checkerUUID(flags.language, flags.repo)
       IN  IF problem # ""
           THEN /\ mainPc' = "fatal"
                /\ fatal' = problem
                /\ UNCHANGED <<requests, reply>>
           ELSE
             /\ requests' = Append(requests,
                   Request("POST", PostCheckerPathCreate(uuid, flags.update), uuid))
             /\ \E ok \in BOOLEAN :
                  \E body \in Bodies(<<uuid>>) :
                    IF ~ok
                    THEN /\ mainPc' = "fatal"
                         /\ fatal' = "CreateChecker: Post: status 500"
                         /\ reply' = reply
                    ELSE
                      LET res == Unmarshal(body)
                      IN  /\ reply' = [sent |-> <<uuid>>, body |-> body, res |-> res]
                          /\ IF res.err # ""
                             THEN /\ mainPc' = "fatal"
                                  /\ fatal' = "CreateChecker: " \o res.err
                             ELSE /\ mainPc' = "exit0"
                                  /\ fatal' = fatal
    /\ UNCHANGED <<daemonVars, tokenVars, libVars, flags, listed>>

\* gc, err := NewGerritChecker(g); gc.Serve().
MainServe ==
    /\ mainPc = "action"
    /\ ~flags.list /\ ~flags.register /\ ~flags.update
    /\ mainPc' = "serve"
    /\ UNCHANGED <<daemonVars, tokenVars, libVars, flags, requests, fatal, reply, listed>>

\* The daemon's loops, which exist once main has reached gc.Serve().
Serving == mainPc = "serve" /\ Next

NextMain ==
    \/ MainStart
    \/ MainAuth
    \/ MainProbe
    \/ MainList
    \/ MainPostChecker
    \/ MainServe
    \/ Serving

SpecMain == InitMain /\ [][NextMain]_vars

\* ------------------------------------------------------- the token cache

\* The expires_in values the metadata service answers with.
Expiries == {1, 3600}

\* The n-th token the metadata service issues, as fetchToken decodes it.
Token(n, e) ==
    [AccessToken |-> "ya29." \o Repeat("x", n), ExpiresIn |-> e, TokenType |-> "Bearer"]

\* What fetchToken can return for the n-th request: nil with an error, or a token.
FetchResults(n) == {Nil} \cup {<<Token(n, e)>> : e \in Expiries}

\* A variant that sleeps for the whole lifetime of the token.
NextDelayNoMargin(t) == IF t = Nil THEN 2 ELSE t[1].ExpiresIn

\* The delaySecs the loop sets after fetchToken returned t (nil on error).
NextDelay(t) == IF t = Nil THEN 2 ELSE t[1].ExpiresIn - 1

\* A variant that takes the mutex whether it is held or not.
CanLockAlways(m) == TRUE

\* tc.mu.Lock() returns only when nobody holds the mutex.
CanLock(m) == m = <<>>

\* The token cache after NewGCPServiceAccount has returned without error: the
\* initial token is stored and the refresh loop has been started.
InitToken ==
    /\ NoLib
    /\ MainServingWith("", "default")
    /\ Formatters = {"commitmsg", "go", "bzl"}
    /\ checks = [ps \in PatchSets |-> [u \in SingleUUID(ps) |-> statusUnset]]
    /\ todo = <<>>
    /\ pollPc = "sleep"
    /\ pending = <<>>
    /\ pidx = 1
    /\ polls = 0
    /\ dropped = {}
    /\ prevDropped = {}
    /\ burst = <<>>
    /\ servePc = "recv"
    /\ runs = {}
    /\ current \in FetchResults(0) \ {Nil}
    /\ mu = <<>>
    /\ loopPc = "start"
    /\ delaySecs = 0
    /\ tok = Nil
    /\ waited = 0
    /\ refreshes = 0
    /\ authPc = [c \in Clients |-> "idle"]
    /\ authSeen = [c \in Clients |-> Nil]
    /\ authRes = [c \in Clients |-> ""]

authVars == <<authPc, authSeen, authRes>>

\* delaySecs := tc.current.ExpiresIn - 1.
LoopStart ==
    /\ loopPc = "start"
    /\ delaySecs' = current[1].ExpiresIn - 1
    /\ loopPc' = "sleep"
    /\ UNCHANGED <<daemonVars, mainVars, libVars, current, mu, tok, waited, refreshes, authVars>>

\* time.Sleep(time.Duration(delaySecs) * time.Second).
LoopSleep ==
    /\ loopPc = "sleep"
    /\ refreshes < MaxRefresh
    /\ waited' = delaySecs
    /\ loopPc' = "fetch"
    /\ UNCHANGED <<daemonVars, mainVars, libVars, current, mu, delaySecs, tok, refreshes, authVars>>

\* tok, err := tc.fetchToken() and the if/else that sets delaySecs.
LoopFetch ==
    /\ loopPc = "fetch"
    /\ \E t \in FetchResults(refreshes + 1) :
         /\ tok' = t
         /\ delaySecs' = NextDelay(t)
    /\ refreshes' = refreshes + 1
    /\ loopPc' = "lock"
    /\ UNCHANGED <<daemonVars, mainVars, libVars, current, mu, waited, authVars>>

\* tc.mu.Lock() in the loop.
LoopLock ==
    /\ loopPc = "lock"
    /\ CanLock(mu)
    /\ mu' = <<"loop", 0>>
    /\ loopPc' = "write"
    /\ UNCHANGED <<daemonVars, mainVars, libVars, current, delaySecs, tok, waited, refreshes, authVars>>

\* tc.current = tok; tc.mu.Unlock().
LoopWrite ==
    /\ loopPc = "write"
    /\ current' = tok
    /\ mu' = <<>>
    /\ loopPc' = "sleep"
    /\ UNCHANGED <<daemonVars, mainVars, libVars, delaySecs, tok, waited, refreshes, authVars>>

loopVars == <<loopPc, delaySecs, tok, waited, refreshes>>

\* Authenticate of client c: tc.mu.Lock().
AuthLock(c) ==
    /\ authPc[c] = "idle"
    /\ CanLock(mu)
    /\ mu' = <<"auth", c>>
    /\ authPc' = [authPc EXCEPT ![c] = "check"]
    /\ UNCHANGED <<daemonVars, mainVars, libVars, current, loopVars, authSeen, authRes>>

\* if tc.current == nil { return fmt.Errorf("no token") }, with the deferred
\* Unlock when it returns.
AuthCheck(c) ==
    /\ authPc[c] = "check"
    /\ authSeen' = [authSeen EXCEPT ![c] = current]
    /\ IF current = Nil
       THEN /\ authRes' = [authRes EXCEPT ![c] = "no token"]
            /\ authPc' = [authPc EXCEPT ![c] = "idle"]
            /\ mu' = <<>>
       ELSE /\ authRes' = authRes
            /\ authPc' = [authPc EXCEPT ![c] = "set"]
            /\ mu' = mu
    /\ UNCHANGED <<daemonVars, mainVars, libVars, current, loopVars>>

\* req.Header.Set("Authorization", "Bearer "+tc.current.AccessToken), return
\* nil and the deferred Unlock; a nil tc.current here is a nil dereference.
AuthSet(c) ==
    /\ authPc[c] = "set"
    /\ authRes' = [authRes EXCEPT ![c] =
                      IF current = Nil THEN "panic: nil pointer dereference"
                      ELSE "Bearer " \o current[1].AccessToken]
    /\ authPc' = [authPc EXCEPT ![c] = "idle"]
    /\ mu' = <<>>
    /\ UNCHANGED <<daemonVars, mainVars, libVars, current, loopVars, authSeen>>

NextToken ==
    \/ LoopStart
    \/ LoopSleep
    \/ LoopFetch
    \/ LoopLock
    \/ LoopWrite
    \/ \E c \in Clients : AuthLock(c)
    \/ \E c \in Clients : AuthCheck(c)
    \/ \E c \in Clients : AuthSet(c)

SpecToken == InitToken /\ [][NextToken]_vars

\* The daemon before its first poll, on a platform without pending checks.
DaemonIdle ==
    /\ Formatters = {"commitmsg", "go", "bzl"}
    /\ checks = [ps \in PatchSets |-> [u \in SingleUUID(ps) |-> statusSuccessful]]
    /\ todo = <<>>
    /\ pollPc = "sleep"
    /\ pending = <<>>
    /\ pidx = 1
    /\ polls = 0
    /\ dropped = {}
    /\ prevDropped = {}
    /\ burst = <<>>
    /\ servePc = "recv"
    /\ runs = {}


\* ---------------------------------------------------------- the Connector

\* The status codes the review platform answers with.
StatusCodes == {200, 201, 204, 401, 500}

\* Server.URL, as u.String() prints it before the path of the request.
baseURL == "https://gerrit.example.com/"

\* What Get and PostPath return: an error and no body, or the body.
HTTPFailure(method, url, status) ==
    [err |-> method \o " " \o url \o ": status " \o ToString(status), body |-> ""]

\* Server.Get(u): if rep.StatusCode/100 != 2 { return nil, fmt.Errorf(...) }.
Get(url, status, body) ==
    IF status \div 100 # 2 THEN HTTPFailure("Get", url, status)
    ELSE [err |-> "", body |-> body]

\* Server.PostPath(p, contentType, content).
PostPath(url, status, body) ==
    IF status \div 100 # 2 THEN HTTPFailure("Post", url, status)
    ELSE [err |-> "", body |-> body]

\* The decoding step of an operation after its request: the error of the
\* request, or what decode makes of the body.
AfterHTTP(http, decoded) ==
    IF http.err # "" THEN [err |-> http.err, val |-> <<>>] ELSE decoded

\* GetChange: content = bytes.TrimPrefix(content, jsonPrefix), then
\* json.Unmarshal(content, &files).
TrimAndDecode(content) == Decode(TrimPrefix(content, jsonPrefix))

Called(op, method, url, status, doc, body, http, res) ==
    [op |-> op, method |-> method, url |-> url, status |-> status, sent |-> doc,
     body |-> body, http |-> http, res |-> res]

\* The answers of the platform to one request: a status and a body.
Answers ==
    UNION {{[NoCall EXCEPT !.status = status, !.sent = doc, !.body = body] :
               status \in StatusCodes, body \in Bodies(doc)} : doc \in Docs}

\* The request of an operation was answered and the operation has not run.
Answered == conn.op = ""

\* Server.GetChange(changeID, revID): the file list, then GetContent for the
\* files, which the platform answers with cstatus.
ConnGetChange ==
    /\ Answered
    /\ \E cstatus \in StatusCodes :
         LET url == baseURL \o "changes/1/revisions/1/files/"
             http == Get(url, conn.status, conn.body)
             list == AfterHTTP(http, TrimAndDecode(http.body))
             content == Get(url \o "x/content", cstatus, "")
             res == IF list.err = "" /\ list.val # <<>> /\ content.err # ""
                    THEN [err |-> content.err, val |-> <<>>]
                    ELSE list
         IN  conn' = Called("GetChange", "GET", url, conn.status, conn.sent,
                            conn.body, http, res)
    /\ UNCHANGED <<daemonVars, tokenVars, mainVars, lint, formatCall, tools, judge, pair, batch, fetch, outcome>>

\* Server.PendingChecksByScheme(scheme).
ConnPendingChecksByScheme ==
    /\ Answered
    /\ LET url == baseURL \o "a/plugins/checks/checks.pending/?query=scheme:fmt"
           http == Get(url, conn.status, conn.body)
       IN  conn' = Called("PendingChecksByScheme", "GET", url, conn.status,
                          conn.sent, conn.body, http,
                          AfterHTTP(http, Unmarshal(http.body)))
    /\ UNCHANGED <<daemonVars, tokenVars, mainVars, lint, formatCall, tools, judge, pair, batch, fetch, outcome>>

\* Server.PendingChecks(checkerUUID).
ConnPendingChecks ==
    /\ Answered
    /\ LET url == baseURL
                    \o "a/plugins/checks/checks.pending/?query=checker%3Afmt%3Ago-a1"
           http == Get(url, conn.status, conn.body)
       IN  conn' = Called("PendingChecks", "GET", url, conn.status, conn.sent,
                          conn.body, http, AfterHTTP(http, Unmarshal(http.body)))
    /\ UNCHANGED <<daemonVars, tokenVars, mainVars, lint, formatCall, tools, judge, pair, batch, fetch, outcome>>

\* Server.PostCheck(changeID, psID, input).
ConnPostCheck ==
    /\ Answered
    /\ LET url == baseURL \o "a/changes/1/revisions/1/checks/"
           http == PostPath(url, conn.status, conn.body)
       IN  conn' = Called("PostCheck", "POST", url, conn.status, conn.sent,
                          conn.body, http, AfterHTTP(http, Unmarshal(http.body)))
    /\ UNCHANGED <<daemonVars, tokenVars, mainVars, lint, formatCall, tools, judge, pair, batch, fetch, outcome>>

\* ListCheckers: GetPath of the checker collection, Unmarshal, the filter.
ConnListCheckers ==
    /\ Answered
    /\ LET url == baseURL \o checkersPath
           http == Get(url, conn.status, conn.body)
           out == AfterHTTP(http, Unmarshal(http.body))
       IN  conn' = Called("ListCheckers", "GET", url, conn.status, conn.sent,
                          conn.body, http,
                          [out EXCEPT !.val = FilterCheckers(out.val)])
    /\ UNCHANGED <<daemonVars, tokenVars, mainVars, lint, formatCall, tools, judge, pair, batch, fetch, outcome>>

\* PostChecker(repo, language, update): PostPath, Unmarshal.
ConnPostChecker ==
    /\ Answered
    /\ \E update \in BOOLEAN, repo \in Repos :
         LET url == baseURL \o PostCheckerPath(checkerUUID("go", repo), update)
             http == PostPath(url, conn.status, conn.body)
         IN  conn' = Called("PostChecker", "POST", url, conn.status, conn.sent,
                            conn.body, http, AfterHTTP(http, Unmarshal(http.body)))
    /\ UNCHANGED <<daemonVars, tokenVars, mainVars, lint, formatCall, tools, judge, pair, batch, fetch, outcome>>

\* A process that only calls one Connector operation, for every answer of
\* the platform.
InitConn ==
    /\ NoTokenCache
    /\ MainServing
    /\ DaemonIdle
    /\ conn \in Answers
    /\ lint = NoLint
    /\ formatCall = NoFormat
    /\ tools = NoTools
    /\ judge = NoJudge
    /\ pair = NoPair
    /\ batch = NoBatch
    /\ fetch = NoFetch
    /\ outcome = NoOutcome

NextConn ==
    \/ ConnGetChange
    \/ ConnPendingChecksByScheme
    \/ ConnPendingChecks
    \/ ConnPostCheck
    \/ ConnListCheckers
    \/ ConnPostChecker

SpecConn == InitConn /\ [][NextConn]_vars

\* -------------------------------------------------------------- the linter

\* len(lines[0]) > 70 in checkCommitMessage.
SubjectLimit == 70

\* Subjects of n characters, without and with a final '.'.
Subjects ==
    UNION {{Repeat("s", n), Repeat("s", n - 1) \o "."} :
              n \in {1, 2, SubjectLimit - 1, SubjectLimit, SubjectLimit + 1}} \cup {""}

\* What follows the subject: nothing, an empty second line, a second line of
\* one character, longer second lines, with and without a body.
Rests == {"", "\n", "\n\nBody", "\nx", "\nx\nBody", "\nxy", "\nxy\nBody."}

\* The commit messages of the model.
Messages == {subject \o rest : subject \in Subjects, rest \in Rests}

\* The file names of the model.
Names == {"A.java", "pkg/x.go", "defs.bzl", "BUILD", "a/BUILD", "WORKSPACE",
          "a/WORKSPACE", "/COMMIT_MSG", "Readme.md", "myBUILD", "BUILD.go",
          "a/COMMIT_MSG"}

\* A change that holds the commit message only.
MessageChange(msg) ==
    [n \in {"/COMMIT_MSG"} |-> [Status |-> "M", Content |-> msg]]

\* checkChange for the commitmsg checker on a change with this message, and
\* the status and message executeCheck derives from it.
LintMessage ==
    /\ ~lint.checked
    /\ LET ch == MessageChange(lint.msg)
           res == checkChange(Languages, TRUE, ch, <<"/COMMIT_MSG">>, "commitmsg",
                              TRUE, [n \in DOMAIN ch |-> ch[n].Content])
       IN  lint' = [lint EXCEPT !.checked = TRUE,
                                !.complaint = checkCommitMessage(lint.msg),
                                !.rep = res.rep,
                                !.verdict = Verdict(res)]
    /\ UNCHANGED <<daemonVars, tokenVars, mainVars, conn, formatCall, tools, judge, pair, batch, fetch, outcome>>

\* cfg.Regex.MatchString(n) for every entry of the registry.
LintClassify ==
    /\ ~lint.classified
    /\ lint' = [lint EXCEPT !.classified = TRUE,
                            !.langs = {l \in Languages : RegexMatch(l, lint.name)}]
    /\ UNCHANGED <<daemonVars, tokenVars, mainVars, conn, formatCall, tools, judge, pair, batch, fetch, outcome>>

\* A process that lints one commit message and classifies one file name.
InitLint ==
    /\ NoTokenCache
    /\ MainServing
    /\ DaemonIdle
    /\ conn = NoCall
    /\ lint \in {[NoLint EXCEPT !.msg = m, !.name = n] : m \in Messages, n \in Names}
    /\ formatCall = NoFormat
    /\ tools = NoTools
    /\ judge = NoJudge
    /\ pair = NoPair
    /\ batch = NoBatch
    /\ fetch = NoFetch
    /\ outcome = NoOutcome

NextLint ==
    \/ LintMessage
    \/ LintClassify

SpecLint == InitLint /\ [][NextLint]_vars

\* ------------------------------------------------------------ Format calls

\* The files a request can hold: one per language, and two without a
\* language tag.
FilePool ==
    {[Name |-> "pkg/x.go", Language |-> "go", Content |-> "package x\n"],
     [Name |-> "A.java", Language |-> "java", Content |-> "class A {}"],
     [Name |-> "BUILD", Language |-> "bzl", Content |-> "cc_library()"],
     [Name |-> "/COMMIT_MSG", Language |-> "commitmsg",
      Content |-> "Fix bug\n\nDetails"],
     [Name |-> "y.go", Language |-> "", Content |-> "package y\n"],
     [Name |-> "B.java", Language |-> "", Content |-> "class B {}"]}

\* Requests of 1 to MaxFiles different files, in every order.
FormatRequests ==
    UNION {{f \in [1..n -> FilePool] : \A i, j \in 1..n : i # j => f[i] # f[j]} :
              n \in 1..MaxFiles}

\* The keys of splitByLang(req.Files).
LanguagesOf(files) == {files[i].Language : i \in 1..Len(files)}

\* What the external tools leave in the files: a final newline added.
Reformatted(files) ==
    [n \in {files[i].Name : i \in 1..Len(files)} |->
        (CHOOSE f \in {files[i] : i \in 1..Len(files)} : f.Name = n).Content \o "\n"]

\* Format(req, rep) with the registry the process has; langs is the order
\* in which the range over splitByLang visits the groups.
FormatCall ==
    /\ ~formatCall.done
    /\ \E langs \in Orderings(LanguagesOf(formatCall.files)) :
         formatCall' =
            [formatCall EXCEPT
               !.done = TRUE,
               !.langs = langs,
               !.rep = Format(formatCall.registry, formatCall.files, langs,
                              formatCall.toolFails, Reformatted(formatCall.files))]
    /\ UNCHANGED <<daemonVars, tokenVars, mainVars, conn, lint, tools, judge, pair, batch, fetch, outcome>>

\* A process that calls Format once, with the registry of all four
\* languages and tools of which some fail.
InitFormat ==
    /\ NoTokenCache
    /\ MainServing
    /\ DaemonIdle
    /\ conn = NoCall
    /\ lint = NoLint
    /\ formatCall \in {[NoFormat EXCEPT !.registry = Languages, !.files = fs,
                                          !.toolFails = fails] :
                          fs \in FormatRequests,
                          fails \in SUBSET {"go", "java", "bzl"}}
    /\ tools = NoTools
    /\ judge = NoJudge
    /\ pair = NoPair
    /\ batch = NoBatch
    /\ fetch = NoFetch
    /\ outcome = NoOutcome

NextFormat == FormatCall

SpecFormat == InitFormat /\ [][NextFormat]_vars

\* The registries init() can leave: commitmsg, and each tool language whose
\* tool LookPath found.
StartupRegistries == {{"commitmsg"} \cup found : found \in SUBSET {"java", "bzl", "go"}}

\* The files of a request that carry a language tag.
TaggedRequests ==
    {fs \in FormatRequests : \A i \in 1..Len(fs) : fs[i].Language # ""}

\* A process that calls Format once on a request of tagged files, with the
\* registry its startup left and tools that work.
InitDispatch ==
    /\ NoTokenCache
    /\ MainServing
    /\ DaemonIdle
    /\ conn = NoCall
    /\ lint = NoLint
    /\ formatCall \in {[NoFormat EXCEPT !.registry = r, !.files = fs] :
                          r \in StartupRegistries, fs \in TaggedRequests}
    /\ tools = NoTools
    /\ judge = NoJudge
    /\ pair = NoPair
    /\ batch = NoBatch
    /\ fetch = NoFetch
    /\ outcome = NoOutcome

NextDispatch == FormatCall

SpecDispatch == InitDispatch /\ [][NextDispatch]_vars

\* --------------------------------------------------- toolFormatter.Format

\* A variant of the return in which the directory stays.
DeferredKept(dirs, dir) == dirs

\* defer os.RemoveAll(tmpDir): what is on disk after the return of a call.
Deferred(dirs, dir) == dirs \ {dir}

\* The return of call c with this error, after the deferred removal.
ToolReturned(c, err) ==
    [tools EXCEPT !.calls[c].pc = "done", !.calls[c].err = err, !.calls[c].i = 0,
                  !.dirs = Deferred(tools.dirs, tools.calls[c].dir)]

ToolVarsUnchanged ==
    UNCHANGED <<daemonVars, tokenVars, mainVars, conn, lint, formatCall, judge, pair, batch, fetch, outcome>>

\* ioutil.TempDir("", "gerritfmt"): a new directory with a name of its own,
\* or an error, after which the call returns at once (nothing is deferred).
ToolTempDir(c) ==
    /\ tools.calls[c].pc = "idle"
    /\ \E ok \in BOOLEAN :
         tools' = IF ok
                  THEN [tools EXCEPT !.calls[c].pc = "write", !.calls[c].i = 1,
                                     !.calls[c].dir = tools.made + 1,
                                     !.dirs = tools.dirs \cup {tools.made + 1},
                                     !.made = tools.made + 1]
                  ELSE [tools EXCEPT !.calls[c].pc = "done",
                                     !.calls[c].err = "TempDir: no space left"]
    /\ ToolVarsUnchanged

\* One round of the first loop: MkdirAll and WriteFile for the next file.
ToolWrite(c) ==
    /\ tools.calls[c].pc = "write"
    /\ \E ok \in BOOLEAN :
         tools' = IF ~ok THEN ToolReturned(c, "WriteFile: no space left")
                  ELSE IF tools.calls[c].i = MaxFiles
                  THEN [tools EXCEPT !.calls[c].pc = "run", !.calls[c].i = 0]
                  ELSE [tools EXCEPT !.calls[c].i = @ + 1]
    /\ ToolVarsUnchanged

\* cmd.Run() in the directory.
ToolRun(c) ==
    /\ tools.calls[c].pc = "run"
    /\ \E ok \in BOOLEAN :
         tools' = IF ~ok THEN ToolReturned(c, "exit status 1")
                  ELSE [tools EXCEPT !.calls[c].pc = "read", !.calls[c].i = 1]
    /\ ToolVarsUnchanged

\* One round of the second loop: ReadFile of the next file; after the last
\* one the call returns the results.
ToolRead(c) ==
    /\ tools.calls[c].pc = "read"
    /\ \E ok \in BOOLEAN :
         tools' = IF ~ok THEN ToolReturned(c, "ReadFile: no such file")
                  ELSE IF tools.calls[c].i = MaxFiles
                  THEN [ToolReturned(c, "") EXCEPT !.calls[c].out = MaxFiles]
                  ELSE [tools EXCEPT !.calls[c].i = @ + 1]
    /\ ToolVarsUnchanged

\* A process whose goroutines call toolFormatter.Format.
InitTool ==
    /\ NoTokenCache
    /\ MainServing
    /\ DaemonIdle
    /\ NoLib

NextTool ==
    \E c \in ToolCalls :
        \/ ToolTempDir(c)
        \/ ToolWrite(c)
        \/ ToolRun(c)
        \/ ToolRead(c)

SpecTool == InitTool /\ [][NextTool]_vars

\* ------------------------------------------------- the posted message

\* len(msg) > 1000 in executeCheck.
MessageLimit == 1000

\* The lengths of the per-file messages of the model: short ones, pairs
\* whose join is just below, at and just above the limit, and single ones
\* around the limit.
MessageLengths ==
    {30, 300, MessageLimit \div 2 - 3, MessageLimit \div 2 - 2,
     MessageLimit \div 2 - 1, MessageLimit \div 2, MessageLimit - 5,
     MessageLimit - 1, MessageLimit, MessageLimit + 1}

\* fmt.Sprintf("%s: %s", f.Name, msg) of n characters, for a file with a
\* long name.
FileMessage(n) ==
    Repeat("d", n - Len(".go: found a difference")) \o ".go: found a difference"

\* What checkChange can return: up to MaxMsgs complaints, no complaint, the
\* marker error, or a failure with a short or a long text.
CheckResults ==
    UNION {{[NoJudge EXCEPT !.msgs = [i \in 1..n |-> FileMessage(ls[i])]] :
               ls \in [1..n -> MessageLengths]} : n \in 0..MaxMsgs}
    \cup {[NoJudge EXCEPT !.err = err] :
             err \in {errIrrelevant, "exit status 1", Repeat("e", MessageLimit)}}

\* The part of executeCheck after checkChange: the status and the message of
\* the second post.
Judge ==
    /\ ~judge.done
    /\ judge' = [judge EXCEPT
                    !.done = TRUE,
                    !.posted = Verdict([NoCheck EXCEPT !.err = judge.err,
                                                       !.msgs = judge.msgs])]
    /\ UNCHANGED <<daemonVars, tokenVars, mainVars, conn, lint, formatCall, tools, pair, batch, fetch, outcome>>

\* executeCheck after checkChange returned, for every result of the model.
InitJudge ==
    /\ NoTokenCache
    /\ MainServing
    /\ DaemonIdle
    /\ conn = NoCall
    /\ lint = NoLint
    /\ formatCall = NoFormat
    /\ tools = NoTools
    /\ judge \in CheckResults
    /\ pair = NoPair
    /\ batch = NoBatch
    /\ fetch = NoFetch
    /\ outcome = NoOutcome

NextJudge == Judge

SpecJudge == InitJudge /\ [][NextJudge]_vars

\* ------------------------------------- one checker UUID on two changes

\* The checker UUIDs that one pending check lists for a change.
PairUUIDs == {"fmt:go-a1", "fmt:commitmsg-b2", "fmt:bzl-c3"}

\* The files of the change: the commit message, two Go files, a build file
\* and a file that no filename rule matches.
PairNames == {"/COMMIT_MSG", "pkg/x.go", "y.go", "a/BUILD", "Readme.md"}

\* The contents a file of the change can have: formatted, not formatted,
\* and (for two files) one that the external tool rejects.
ContentOf(n, k) ==
    CASE n = "/COMMIT_MSG" -> IF k = 2 THEN "Fix bug." ELSE "Fix bug\n\nDetails"
      [] n = "pkg/x.go" -> CASE k = 2 -> "package x"  [] k = 3 -> "func {"
                             [] OTHER -> "package x\n"
      [] n = "y.go" -> IF k = 2 THEN "package y" ELSE "package y\n"
      [] n = "a/BUILD" -> IF k = 3 THEN "cc_library({" ELSE "cc_library()\n"
      [] OTHER -> IF k = 2 THEN "README" ELSE "readme"

PairChanges ==
    {[n \in PairNames |-> [Status |-> "M", Content |-> ContentOf(n, k[n])]] :
        k \in [PairNames -> {1, 2, 3}]}

\* The changes that differ from ch at most in the content of files that the
\* filename rule of the language does not match.
OtherContentChanged(ch, language) ==
    {c \in PairChanges :
        \A n \in MatchedNames(ch, language) : c[n].Content = ch[n].Content}

\* cmd.Run() of the external tool on the files of the request: it exits
\* non-zero when one of the files it was given does not parse.
ToolAccepts(req) == \A i \in 1..Len(req) : ~HasSuffix(req[i].Content, "{")

\* What ioutil.ReadFile finds after the tool has run: the file rewritten in
\* the tool's canonical form (here: ending in a newline).
ToolRewrites(ch) ==
    [n \in DOMAIN ch |->
        IF HasSuffix(ch[n].Content, "\n") THEN ch[n].Content
        ELSE ch[n].Content \o "\n"]

\* checkChange for the language of the UUID, with the external tool acting
\* on the files handed to it.
checkChangeOf(ch, order, language) ==
    checkChange(Formatters, TRUE, ch, order, language,
                ToolAccepts(MatchedFiles(ch, order, language)), ToolRewrites(ch))

\* executeCheck for pair.uuid, once on each of the two changes: checkChange
\* and the status and message of the second post.
PairCheck ==
    /\ ~pair.done
    /\ LET res1 == checkChangeOf(pair.ch1, pair.order, pair.language)
           res2 == checkChangeOf(pair.ch2, pair.order, pair.language)
       IN  pair' = [pair EXCEPT !.done = TRUE, !.res1 = res1, !.res2 = res2,
                                !.v1 = Verdict(res1), !.v2 = Verdict(res2)]
    /\ UNCHANGED <<daemonVars, tokenVars, mainVars, conn, lint, formatCall, tools, judge, batch, fetch, outcome>>

\* A checker UUID of the pending check, a change, a second change that
\* differs only outside the files of the UUID's language, and the order in
\* which ch.Files yields the files (the same for both).
InitPair ==
    /\ NoTokenCache
    /\ MainServing
    /\ DaemonIdle
    /\ conn = NoCall
    /\ lint = NoLint
    /\ formatCall = NoFormat
    /\ tools = NoTools
    /\ judge = NoJudge
    /\ \E u \in PairUUIDs, a \in PairChanges :
         LET language == checkerLanguage(u).lang
         IN  \E b \in OtherContentChanged(a, language),
                o \in IterationOrders(a, language) :
               pair = [NoPair EXCEPT !.uuid = u, !.language = language,
                                     !.ch1 = a, !.ch2 = b, !.order = o]
    /\ batch = NoBatch
    /\ fetch = NoFetch
    /\ outcome = NoOutcome

NextPair == PairCheck

SpecPair == InitPair /\ [][NextPair]_vars

\* --------------------------------------- one language group of Format

\* The Go files a group can hold.
BatchPool ==
    {[Name |-> "pkg/x.go", Language |-> "go", Content |-> "package x"],
     [Name |-> "y.go", Language |-> "go", Content |-> "package y"],
     [Name |-> "cmd/z.go", Language |-> "go", Content |-> "package z\n"]}

\* Groups of 1 to MaxFiles different files, in every order.
BatchGroups ==
    UNION {{f \in [1..n -> BatchPool] : \A i, j \in 1..n : i # j => f[i] # f[j]} :
              n \in 1..MaxFiles}

\* What the external tool can do: exit with 0, 1 or 2, write something or
\* nothing to its standard output and its standard error, and rewrite some
\* of the files it was given before it exits.
ToolRuns(in) ==
    {[exit |-> x, stdout |-> o, stderr |-> e, rewrote |-> w] :
        x \in {0, 1, 2},
        o \in {"", "formatted pkg/x.go\n"},
        e \in {"", "y.go:1:1: expected 'package'\n"},
        w \in SUBSET {in[i].Name : i \in 1..Len(in)}}

\* The file in the temporary directory after the tool has run.
OnDisk(f, run) ==
    IF f.Name \in run.rewrote /\ ~HasSuffix(f.Content, "\n")
    THEN f.Content \o "\n" ELSE f.Content

\* inlineFixTool / toolFormatter.Format with a working file system: the
\* tool's standard output and standard error go to outBuf and errBuf, which
\* are logged when cmd.Run() fails; outSink is not written. sink is what
\* outSink holds at the return, logged what log.Printf got.
inlineFixTool(in, run) ==
    IF run.exit # 0
    THEN [out |-> <<>>, err |-> "exit status " \o ToString(run.exit), sink |-> "",
          logged |-> "error exit status " \o ToString(run.exit) \o ", stderr "
                       \o run.stderr \o ", stdout " \o run.stdout]
    ELSE [out |-> [i \in 1..Len(in) |->
                      [Name |-> in[i].Name, Content |-> OnDisk(in[i], run),
                       Message |-> ""]],
          err |-> "", sink |-> "", logged |-> ""]

\* One round of the loop of Format over the language groups, for a group
\* whose formatter is an external tool: buf is the outSink of the call.
formatGroup(fs, run) ==
    LET r == inlineFixTool(fs, run)
        buf == r.sink
    IN  IF r.err # "" THEN [err |-> r.err, files |-> <<>>, logged |-> r.logged]
        ELSE [err |-> "",
              files |-> [i \in 1..Len(r.out) |->
                           IF i = 1 /\ r.out[1].Message = ""
                           THEN [r.out[1] EXCEPT !.Message = buf]
                           ELSE r.out[i]],
              logged |-> r.logged]

\* Format reaches the group and runs its tool.
BatchFormat ==
    /\ ~batch.done
    /\ batch' = [batch EXCEPT !.done = TRUE,
                              !.res = formatGroup(batch.files, batch.run)]
    /\ UNCHANGED <<daemonVars, tokenVars, mainVars, conn, lint, formatCall, tools,
                   judge, pair, fetch, outcome>>

\* A group of Go files and a run of the tool on them.
InitBatch ==
    /\ NoTokenCache
    /\ MainServing
    /\ DaemonIdle
    /\ conn = NoCall
    /\ lint = NoLint
    /\ formatCall = NoFormat
    /\ tools = NoTools
    /\ judge = NoJudge
    /\ pair = NoPair
    /\ \E fs \in BatchGroups :
         \E run \in ToolRuns(fs) :
            batch = [NoBatch EXCEPT !.files = fs, !.run = run]
    /\ fetch = NoFetch
    /\ outcome = NoOutcome

NextBatch == BatchFormat

SpecBatch == InitBatch /\ [][NextBatch]_vars

\* ------------------------------------------------------------- GetChange

\* The names in the file list of the revision.
FetchNames == {"/COMMIT_MSG", "pkg/x.go", "old.bzl"}

\* base64.StdEncoding.Decode on the bodies of the model.
base64Decode(c) ==
    CASE c = "cGFja2FnZSB4Cg==" -> [err |-> "", val |-> "package x\n"]
      [] c = "Rml4IGJ1ZwoKRGV0YWlscw==" -> [err |-> "", val |-> "Fix bug\n\nDetails"]
      [] c = "" -> [err |-> "", val |-> ""]
      [] OTHER -> [err |-> "illegal base64 data at input byte 0", val |-> ""]

\* Server.GetContent(changeID, revID, fileID) when the platform answers the
\* request with the status and the body of answer.
GetContent(name, answer) ==
    LET c == Get(baseURL \o "changes/1/revisions/1/files/" \o name \o "/content",
                 answer.status, answer.body)
    IN  IF c.err # "" THEN [err |-> c.err, val |-> ""] ELSE base64Decode(c.body)

\* A variant that fetches the content of every file of the list.
needsContentAlways(file) == TRUE

\* if file.Status == "D" { continue }.
needsContent(file) == file.Status # "D"

\* The loop of GetChange over the file list, in the order the map yields the
\* names: the change so far, the content requests sent, and the error that
\* ended the loop.
RECURSIVE FetchContents(_, _, _, _)
FetchContents(files, answers, order, requested) ==
    IF order = <<>> THEN [err |-> "", val |-> files, requested |-> requested]
    ELSE
      LET name == order[1]
      IN  IF ~needsContent(files[name])
          THEN FetchContents(files, answers, Tail(order), requested)
          ELSE
            LET c == GetContent(name, answers[name])
            IN  IF c.err # ""
                THEN [err |-> c.err, val |-> <<>>,
                      requested |-> Append(requested, name)]
                ELSE FetchContents([files EXCEPT ![name].Content = c.val], answers,
                                   Tail(order), Append(requested, name))

\* Server.GetChange(changeID, revID): the file list (listJSON: the body
\* after bytes.TrimPrefix is a JSON object of files), then the contents.
GetChange(listStatus, listJSON, files, answers, order) ==
    LET http == Get(baseURL \o "changes/1/revisions/1/files/", listStatus, "")
    IN  IF http.err # "" THEN [err |-> http.err, val |-> <<>>, requested |-> <<>>]
        ELSE IF ~listJSON
        THEN [err |-> "invalid character '<' looking for beginning of value",
              val |-> <<>>, requested |-> <<>>]
        ELSE FetchContents(files, answers, order, <<>>)

\* One call of GetChange.
FetchChange ==
    /\ ~fetch.done
    /\ LET r == GetChange(fetch.listStatus, fetch.listJSON, fetch.files,
                          fetch.answers, fetch.order)
       IN  fetch' = [fetch EXCEPT !.done = TRUE, !.requested = r.requested,
                                  !.res = [err |-> r.err, val |-> r.val]]
    /\ UNCHANGED <<daemonVars, tokenVars, mainVars, conn, lint, formatCall, tools,
                   judge, pair, batch, outcome>>

\* The answers of the platform to one call of GetChange: to the file list
\* request (a status, JSON or not, the files with their status and no
\* content yet) and to the content request for each file, and the order in
\* which the map of files is ranged over.
InitFetch ==
    /\ NoTokenCache
    /\ MainServing
    /\ DaemonIdle
    /\ conn = NoCall
    /\ lint = NoLint
    /\ formatCall = NoFormat
    /\ tools = NoTools
    /\ judge = NoJudge
    /\ pair = NoPair
    /\ batch = NoBatch
    /\ \E ls \in {200, 500}, lj \in BOOLEAN,
          st \in [FetchNames -> {"M", "D"}],
          an \in [FetchNames -> {[status |-> 200, body |-> "cGFja2FnZSB4Cg=="],
                                 [status |-> 200, body |-> "<html>"],
                                 [status |-> 500, body |-> ""]}],
          o \in Orderings(FetchNames) :
         fetch = [NoFetch EXCEPT
                    !.listStatus = ls, !.listJSON = lj,
                    !.files = [n \in FetchNames |-> [Status |-> st[n], Content |-> ""]],
                    !.answers = an, !.order = o]
    /\ outcome = NoOutcome

NextFetch == FetchChange

SpecFetch == InitFetch /\ [][NextFetch]_vars

\* --------------------------------------- checkChange on a fetched change

\* checkChange(changeID, psID, language) for outcome.uuid: GetChange has
\* been answered as fetch records, the tool exits with or without an error
\* and leaves each file it was given as it was or rewritten; then the
\* status and message of the second post.
CheckFetched ==
    /\ fetch.done
    /\ ~outcome.done
    /\ \E ok \in BOOLEAN, out \in ToolOutputs(fetch.res.val, outcome.language) :
         LET res == checkChange(Formatters, fetch.res.err = "", fetch.res.val,
                                fetch.order, outcome.language, ok, out)
         IN  outcome' = [outcome EXCEPT !.done = TRUE, !.toolOk = ok,
                                        !.toolOut = out, !.res = res,
                                        !.posted = Verdict(res)]
    /\ UNCHANGED <<daemonVars, tokenVars, mainVars, conn, lint, formatCall, tools,
                   judge, pair, batch, fetch>>

\* executeCheck for one UUID on a change whose file list was fetched: the
\* files are deleted or not, the content requests are answered or not.
InitOutcome ==
    /\ NoTokenCache
    /\ MainServing
    /\ DaemonIdle
    /\ conn = NoCall
    /\ lint = NoLint
    /\ formatCall = NoFormat
    /\ tools = NoTools
    /\ judge = NoJudge
    /\ pair = NoPair
    /\ batch = NoBatch
    /\ \E st \in [FetchNames -> {"M", "D"}],
          bad \in {{}} \cup {{n} : n \in FetchNames},
          o \in {<<"/COMMIT_MSG", "pkg/x.go", "old.bzl">>,
                 <<"old.bzl", "pkg/x.go", "/COMMIT_MSG">>} :
         fetch = [NoFetch EXCEPT
                    !.listStatus = 200, !.listJSON = TRUE,
                    !.files = [n \in FetchNames |-> [Status |-> st[n], Content |-> ""]],
                    !.answers = [n \in FetchNames |->
                                    IF n \in bad THEN [status |-> 500, body |-> ""]
                                    ELSE [status |-> 200, body |-> "cGFja2FnZSB4Cg=="]],
                    !.order = o]
    /\ \E u \in PairUUIDs :
         outcome = [NoOutcome EXCEPT !.uuid = u, !.language = checkerLanguage(u).lang]

NextOutcome ==
    \/ FetchChange
    \/ CheckFetched

SpecOutcome == InitOutcome /\ [][NextOutcome]_vars

\* ------------------------------------------------- sustained overload

\* The check that is watched: the commit message checker on patch set 2.
Starved == [ps |-> 2, uuid |-> "fmt:commitmsg-b2"]

\* The check of patch set 1 that the platform refuses every post for, so
\* that it stays pending.
RejectedUUID == "fmt:java-a1"

\* A cycle of pendingLoop after the cycles are no longer counted: the sleep,
\* during which Serve has come by and received an item, a query that
\* succeeds, and the loop is at the first result.
PollQueryAgain ==
    /\ pollPc = "sleep"
    /\ polls = MaxPolls
    /\ Len(todo) < QueueCap
    /\ LET res == PendingChecksByScheme(checks)
       IN  /\ res # <<>>
           /\ pending' = res
           /\ pidx' = 1
           /\ pollPc' = "offer"
           /\ prevDropped' = dropped
           /\ dropped' = {}
    /\ UNCHANGED nonDaemonVars
    /\ UNCHANGED <<Formatters, checks, todo, burst, servePc, runs, polls>>

\* Serve is the slower loop: by the time it is back at the range, pendingLoop
\* has filled the channel again and sleeps.
SlowRecv == Len(todo) = QueueCap /\ pollPc = "sleep" /\ ServeRecv

\* executeCheck on a platform that answers every post for RejectedUUID with
\* an error.
RejectingPostRunning ==
    /\ ExecPostRunning
    /\ checks'[1][RejectedUUID] = checks[1][RejectedUUID]

\* The daemon at the end of a poll cycle in which the channel was full of
\* items of patch set 1 and the item of patch set 2, pending since that
\* cycle, was dropped.
InitOverload ==
    /\ NoLib
    /\ NoTokenCache
    /\ MainServing
    /\ Formatters = {"commitmsg", "go", "bzl"}
    /\ checks = [ps \in PatchSets |-> [u \in PendingUUIDs(ps) |-> statusUnset]]
    /\ todo = [i \in 1..QueueCap |->
                  [PatchSet |-> 1, PendingChecks |-> PendingUUIDs(1)]]
    /\ burst = todo
    /\ pollPc = "sleep"
    /\ pending = <<>>
    /\ pidx = 1
    /\ polls = MaxPolls
    /\ dropped = PatchSets \ {1}
    /\ prevDropped = {}
    /\ servePc = "recv"
    /\ runs = {}

PollOverload == PollQueryAgain \/ PollOffer

ServeOverload ==
    \/ SlowRecv
    \/ RejectingPostRunning
    \/ ExecCheckChange
    \/ ServeReturn

NextOverload == PollOverload \/ ServeOverload

\* The process keeps running: a goroutine that can take a step takes one.
\* (Under this load neither loop can run for ever without the other: a full
\* channel stops the next query, a channel that is not full stops Serve.)
SpecOverload ==
    /\ InitOverload
    /\ [][NextOverload]_vars
    /\ WF_vars(NextOverload)

\* ------------------------------------------------------------ properties

\* The run has made the second post for r.uuid: checkChange has returned and
\* the last entry of r.posts is the status derived from its result.
Judged(r) == r.check # NoCheck

\* The language of the checker UUID the run is at.
LangOf(r) == checkerLanguage(r.uuid).lang

\* Some file of the formatter's reply differs from the submitted content.
Differs(r) ==
    \E i \in 1..Len(r.check.rep) :
        LET f == r.check.rep[i]
        IN  f.Name \in DOMAIN ChangeFiles(r.pc.PatchSet)
              /\ f.Content # ChangeFiles(r.pc.PatchSet)[f.Name].Content

\* Some check of the patch set has not been started.
StillPending(cs, ps) == \E u \in DOMAIN cs[ps] : cs[ps][u] = statusUnset

\* C1: within a run of executeCheck, a terminal status is posted for a UUID
\* only after a RUNNING post for the same UUID and patch set has succeeded;
\* no status other than RUNNING or a terminal one is posted.
C1_RunningBeforeTerminal ==
    \A r \in runs : \A j \in 1..Len(r.posts) :
        /\ r.posts[j].state \in Terminal \cup {statusRunning}
        /\ r.posts[j].state \in Terminal =>
              \E i \in 1..(j - 1) :
                 /\ r.posts[i].state = statusRunning
                 /\ r.posts[i].ok
                 /\ r.posts[i].uuid = r.posts[j].uuid
                 /\ r.posts[i].ps = r.posts[j].ps

\* A run that has posted terminal statuses for both UUIDs of its pending check.
C1_Witness ==
    \E r \in runs :
        /\ Len(r.posts) = 4
        /\ r.posts[2].state \in Terminal /\ r.posts[2].ok
        /\ r.posts[4].state \in Terminal /\ r.posts[4].ok
        /\ r.posts[2].uuid # r.posts[4].uuid

C3_NoneLeftRunning ==
    \A r \in runs :
        (r.phase = "ret" /\ \A i \in 1..Len(r.posts) : r.posts[i].ok) =>
            \A i \in 1..Len(r.posts) :
                r.posts[i].state = statusRunning =>
                    \E j \in (i + 1)..Len(r.posts) :
                        /\ r.posts[j].uuid = r.posts[i].uuid
                        /\ r.posts[j].state \in Terminal

\* C4: no status is posted for a check whose terminal status the platform
\* already holds.
C4_NoPostAfterTerminal ==
    \A r \in runs : \A i \in 1..Len(r.posts) : r.posts[i].prior \notin Terminal

C6_MachineryFailureReported ==
    \A r \in runs :
        (Judged(r) /\ r.check.err \notin {"", errIrrelevant}) =>
            /\ Last(r.posts).uuid = r.uuid
            /\ Last(r.posts).state = statusFail
            /\ HasPrefix(Last(r.posts).msg, "tool failure: ")
            /\ TrimPrefix(Last(r.posts).msg, "tool failure: ") = r.check.err

\* A run whose external tool exited non-zero and whose report was posted.
C6_Witness ==
    \E r \in runs :
        /\ Judged(r) /\ r.check.invoked /\ r.check.err = "exit status 1"
        /\ Last(r.posts).ok

\* C7: the channel never holds more than QueueCap items; of the items offered
\* since Serve last received, exactly the first QueueCap are queued, in the
\* order offered; and pendingLoop can always take its next step of the range
\* loop, whether the channel is full or not.
C7_QueueBounded ==
    /\ Len(todo) <= QueueCap
    /\ todo = SubSeq(burst, 1, IF Len(burst) < QueueCap THEN Len(burst) ELSE QueueCap)
    /\ pollPc = "offer" => ENABLED PollOffer

\* Six offers with no receive in between: five queued, the sixth dropped, and
\* pendingLoop back at its sleep.
C7_Witness ==
    /\ Len(burst) = QueueCap + 1
    /\ Len(todo) = QueueCap
    /\ burst[QueueCap + 1].PatchSet \in dropped
    /\ pollPc = "sleep"

\* A step of the range loop of pendingLoop taken while the channel is full.
DropStep ==
    /\ pollPc = "offer"
    /\ Len(todo) = QueueCap
    /\ pidx' # pidx \/ pollPc' # pollPc

\* C8: a drop changes neither the platform nor the channel nor any run; a
\* query that returns results returns every dropped patch set that still has
\* a check not started; and the range loop ends only after the last result,
\* so every result is offered.
C8_DropKeepsPending ==
    [][ /\ DropStep => /\ checks' = checks
                       /\ runs' = runs
                       /\ todo' = todo
                       /\ pending[pidx].PatchSet \in dropped'
        /\ (polls' # polls /\ pending' # <<>>) =>
              \A ps \in dropped :
                  StillPending(checks, ps) =>
                      \E i \in 1..Len(pending') : pending'[i].PatchSet = ps
        /\ (pollPc = "offer" /\ pidx' # pidx) =>
              IF pidx < Len(pending) THEN pidx' = pidx + 1 /\ pollPc' = "offer"
              ELSE pollPc' = "sleep"
        /\ (pollPc = "offer" /\ pollPc' = "sleep") => pidx = Len(pending)
      ]_vars

\* pendingLoop is about to offer a patch set it dropped in the cycle before,
\* and the channel has room for it.
C8_Witness ==
    /\ pollPc = "offer"
    /\ pending[pidx].PatchSet \in prevDropped
    /\ Len(todo) < QueueCap

\* A post that failed is the last post of its run, and the run returns an error.
PostFailureLast ==
    \A r \in runs : \A i \in 1..Len(r.posts) :
        ~r.posts[i].ok => /\ i = Len(r.posts)
                          /\ r.phase = "ret"
                          /\ r.err # ""

\* From a run that is returning, the only step is the return to Serve: the
\* platform and the channel stay as they are and Serve is back at the range.
ReturnResumes ==
    (\E r \in runs : r.phase = "ret") =>
        /\ runs' = {}
        /\ servePc' = "recv"
        /\ checks' = checks
        /\ todo' = todo

\* C9: after a post fails, executeCheck posts nothing more for the pending
\* check and returns the error; Serve then only goes back to its range loop,
\* with the channel untouched.
C9_PostFailureAborts == []PostFailureLast /\ [][ReturnResumes]_vars

\* A run aborted by a failed post while a UUID of its pending check is
\* unhandled and another pending check is queued.
C9_Witness ==
    \E r \in runs :
        /\ r.posts # <<>> /\ ~Last(r.posts).ok
        /\ r.remaining # {}
        /\ todo # <<>>

\* C10: at most one executeCheck is in progress, and Serve is at its range
\* loop exactly when none is.
C10_OneAtATime ==
    /\ Cardinality(runs) <= 1
    /\ servePc = "recv" <=> runs = {}

\* A check in progress while further items are queued and pendingLoop is in
\* the middle of offering its results.
C10_Witness ==
    /\ Cardinality(runs) = 1
    /\ todo # <<>>
    /\ pollPc = "offer"

\* The refresh loop can take a step, or waits for a client to unlock.
LoopRuns ==
    \/ ENABLED (LoopStart \/ LoopSleep \/ LoopFetch \/ LoopLock \/ LoopWrite)
    \/ (loopPc = "lock" /\ mu # <<>> /\ mu[1] = "auth")

\* C17: the refresh loop sleeps expires_in - 1 seconds of the initial token
\* before its first fetch, expires_in - 1 seconds of the fetched token after a
\* fetch that succeeded (3599 for 3600), and 2 seconds after a fetch that
\* failed; each sleep lasts exactly delaySecs; and the loop never stops.
C17_RefreshDelay ==
    /\ (refreshes = 0 /\ loopPc \in {"sleep", "fetch"})
          => delaySecs = current[1].ExpiresIn - 1
    /\ (refreshes > 0 /\ tok = Nil) => delaySecs = 2
    /\ (refreshes > 0 /\ tok # Nil) => delaySecs = tok[1].ExpiresIn - 1
    /\ (refreshes > 0 /\ tok # Nil /\ tok[1].ExpiresIn = 3600) => delaySecs = 3599
    /\ loopPc = "fetch" => waited = delaySecs
    /\ loopPc \in {"start", "sleep", "fetch", "lock", "write"}
    /\ (loopPc # "sleep" \/ refreshes < MaxRefresh) => LoopRuns

\* The loop is about to fetch again 2 seconds after a fetch that failed, the
\* fetch before that one having asked for 3599 seconds.
C17_Witness ==
    /\ loopPc = "fetch"
    /\ refreshes >= 2
    /\ tok = Nil
    /\ waited = 2
    /\ current = Nil \/ current[1].ExpiresIn = 3600

\* C18: once the token cache is constructed it always holds a token, and no
\* Authenticate fails with "no token".
C18_TokenAlwaysHeld ==
    /\ current # Nil
    /\ \A c \in Clients : authRes[c] # "no token"

\* The critical sections: the loop between Lock and Unlock, a client
\* between Lock and the deferred Unlock.
LoopInCS == loopPc = "write"

AuthInCS(c) == authPc[c] \in {"check", "set"}

\* At most one goroutine is in its critical section, it is the holder of the
\* mutex, and a client uses the token it saw at the nil check.
Exclusive ==
    /\ Cardinality({c \in Clients : AuthInCS(c)}) + (IF LoopInCS THEN 1 ELSE 0) <= 1
    /\ LoopInCS <=> mu = <<"loop", 0>>
    /\ \A c \in Clients :
          /\ AuthInCS(c) <=> mu = <<"auth", c>>
          /\ authPc[c] = "set" => (current # Nil /\ authSeen[c] = current)
          /\ authRes[c] # "panic: nil pointer dereference"

\* Only the write of the loop, made inside its critical section, changes
\* tc.current.
OnlyLoopWrites == current' # current => (LoopInCS /\ current' = tok)

\* C19: Authenticate and the write of the refresh loop exclude each other
\* under tc.mu, the loop is the only writer, and an Authenticate sees one
\* token from its nil check to its use.
C19_TokenSerialized == []Exclusive /\ [][OnlyLoopWrites]_vars

\* A client is between its nil check and its use of the token while the loop
\* waits at Lock with a newly fetched token.
C19_Witness ==
    \E c \in Clients :
        /\ authPc[c] = "set"
        /\ loopPc = "lock"
        /\ tok # Nil /\ tok # current

\* ----------------------------------------------- checker administration

HexDigits == {"0", "1", "2", "3", "4", "5", "6", "7", "8", "9",
              "a", "b", "c", "d", "e", "f"}

IsLowerHex(str) == \A i \in 1..Len(str) : SubSeq(str, i, i) \in HexDigits

\* The requests of main that post a checker definition.
CheckerPosts == {i \in 1..Len(requests) : requests[i].method = "POST"}

\* C11: the UUID of a posted checker is "fmt:" + language + "-" + the 40
\* lowercase hex digits of the SHA-1 of the repository name, checkerLanguage
\* gives back exactly the language with ok, and for one repository two
\* languages never share a UUID.
C11_UUIDDerivation ==
    /\ \A i \in CheckerPosts :
          LET uuid == requests[i].uuid
              head == "fmt:" \o flags.language \o "-"
              hex == SubSeq(uuid, Len(head) + 1, Len(uuid))
          IN  /\ uuid = head \o hex
              /\ Len(hex) = 40
              /\ IsLowerHex(hex)
              /\ hex = sha1Hex(flags.repo)
              /\ checkerLanguage(uuid) = [lang |-> flags.language, ok |-> TRUE]
    /\ \A r \in Repos : \A l1, l2 \in Languages :
          l1 # l2 => checkerUUID(l1, r) # checkerUUID(l2, r)

\* A checker was posted for a repository whose name holds a '-'.
C11_Witness ==
    /\ CheckerPosts # {}
    /\ flags.repo = "a-b"
    /\ flags.language = "go"

\* C12: a registration is posted to the collection a/plugins/checks/checkers/
\* and an update to the sub-path of the checker's UUID, as PostChecker of the
\* daemon does, also when main selects the action from --register or
\* --update.
C12_RegisterUpdatePaths ==
    \A i \in CheckerPosts :
        LET uuid == requests[i].uuid
            path == requests[i].path
        IN  /\ (flags.register /\ ~flags.update) =>
                  (path = checkersPath /\ path = PostCheckerPath(uuid, FALSE))
            /\ (flags.update /\ ~flags.register) =>
                  (path = checkersPath \o uuid /\ path = PostCheckerPath(uuid, TRUE))

\* The first of the two '-'-separated fields after "fmt:" is a language of
\* the registry.
HasRegisteredLanguage(uuid, registry) ==
    LET fields == Split(TrimPrefix(uuid, "fmt:"), "-")
    IN  /\ HasPrefix(uuid, "fmt:")
        /\ Len(fields) = 2
        /\ fields[1] \in registry

\* C13: the list action returns, in the platform's order, exactly the
\* reported checkers whose UUID is under scheme fmt and has exactly two
\* '-'-separated fields, the first a registered language; checkers of other
\* schemes, legacy fmt:<hex> UUIDs and unrecognized languages are omitted.
C13_ListFiltersLanguages ==
    (flags.list /\ mainPc = "exit0") =>
        listed = SelectSeq(reply.sent,
                           LAMBDA o : HasRegisteredLanguage(o, Formatters))

\* --register or --update with a missing --repo, a missing --language or a
\* language that has no formatter.
BadUsage ==
    /\ flags.register \/ flags.update
    /\ \/ flags.repo = ""
       \/ flags.language = ""
       \/ flags.language \notin Formatters

UsageErrors ==
    {"need to set --repo", "must set --language.", "language is not supported."}

\* C14: with --register or --update, a missing --repo, a missing --language
\* or an unregistered language ends the process with a fatal error: no
\* checker is ever posted, the process neither exits with success from the
\* action nor starts serving, and once the action is reached the fatal error
\* is the usage error.
C14_BadUsageFatal ==
    BadUsage =>
        /\ CheckerPosts = {}
        /\ ~flags.list => mainPc \notin {"exit0", "serve"}
        /\ (~flags.list /\ mainPc = "fatal"
              /\ requests = <<Request("GET", probePath, "")>>
              /\ ~HasPrefix(fatal, "accounts/self"))
             => fatal \in UsageErrors

\* main stopped at the registry check, for a language without a formatter.
C14_Witness ==
    /\ flags.register /\ ~flags.list
    /\ flags.repo = "gerrit" /\ flags.language = "java"
    /\ mainPc = "fatal"
    /\ fatal = "language is not supported."

\* A request that main or the daemon issues after the identity probe: the
\* GET of the checker list, a checker POST, a pending-checks query or a
\* check-status post.
LaterRequest ==
    \/ Len(requests) > 1
    \/ \E i \in 1..Len(requests) : requests[i].path # probePath
    \/ polls > 0
    \/ \E r \in runs : r.posts # <<>>

ProbeFailed == HasPrefix(fatal, "accounts/self")

\* C15: a run issues one GET of a/accounts/self, and it is the first
\* request: a list, a checker POST, a pending-checks query or a check-status
\* post comes only after it; if the GET failed the process has stopped with
\* a fatal error and none of those requests was issued.
C15_ProbeFirst ==
    /\ requests # <<>> => requests[1] = Request("GET", probePath, "")
    /\ \A i \in 2..Len(requests) : requests[i].path # probePath
    /\ LaterRequest => (requests # <<>> /\ ~ProbeFailed)
    /\ mainPc \in {"action", "exit0", "serve"} => (requests # <<>> /\ ~ProbeFailed)
    /\ ProbeFailed => (mainPc = "fatal" /\ ~LaterRequest)

\* The daemon posted a check status, after the one probe of main.
C15_Witness ==
    /\ mainPc = "serve"
    /\ \E r \in runs : r.posts # <<>>
    /\ requests = <<Request("GET", probePath, "")>>

\* Both --auth_file and --gcp_service_account are set, or neither is.
BadAuthFlags == (flags.authFile = "") <=> (flags.gcp = "")

AuthErrors ==
    {"must set --auth_file",
     "cannot set both --auth_file and --gcp_service_account"}

\* C16: with both --auth_file and --gcp_service_account set, or with neither,
\* the process stops with a configuration error before any request: no
\* probe, no pending-checks query, no status post, and it never serves.
C16_AuthConfigFatal ==
    BadAuthFlags =>
        /\ requests = <<>>
        /\ polls = 0
        /\ runs = {}
        /\ mainPc \in {"flags", "auth", "fatal"}
        /\ (mainPc = "fatal" /\ flags.gerrit # "") => fatal \in AuthErrors

\* A daemon start stopped because both providers were selected.
C16_Witness ==
    /\ flags.authFile # "" /\ flags.gcp # ""
    /\ flags.gerrit # ""
    /\ ~flags.list /\ ~flags.register /\ ~flags.update
    /\ mainPc = "fatal"
    /\ fatal = "cannot set both --auth_file and --gcp_service_account"

\* -------------------------------------------------------- platform JSON

\* The platform answered a request of main and Unmarshal ran on the body.
Decoded == reply # NoReply

PrefixErrorHead == "prefix \")]}'\" not found, got "

\* C20: Unmarshal of the prefix )]}' followed by the encoding of a document
\* yields the document; Unmarshal of a body that does not start with the
\* prefix fails with the prefix error, which echoes a prefix of the body of
\* at most 100 bytes (the whole body when it is shorter), and decodes nothing.
C20_UnmarshalRoundTrip ==
    Decoded =>
        /\ reply.body = jsonPrefix \o Encode(reply.sent) =>
              reply.res = [err |-> "", val |-> reply.sent]
        /\ ~HasPrefix(reply.body, jsonPrefix) =>
              LET err == reply.res.err
                  echo == SubSeq(err, Len(PrefixErrorHead) + 1, Len(err))
              IN  /\ HasPrefix(err, PrefixErrorHead)
                  /\ Len(echo) <= 100
                  /\ HasPrefix(reply.body, echo)
                  /\ Len(reply.body) <= 100 => echo = reply.body
                  /\ reply.res.val = <<>>

\* The platform answered the list request with a sign-in page of more than
\* 100 bytes, and the error echoes its first 100.
C20_Witness ==
    /\ Decoded
    /\ reply.body = LoginPage
    /\ Len(reply.body) > 100
    /\ reply.res.err = PrefixErrorHead \o SubSeq(LoginPage, 1, 100)

\* ---------------------------------------------------------- the Connector

\* A Connector operation ran and its request was answered with a body.
GotBody == conn.op # "" /\ conn.http.err = ""

\* C21: every Connector operation that decodes a response body (GetChange,
\* PendingChecks, PendingChecksByScheme, PostCheck, listing and posting
\* checkers) fails with the prefix error when the body does not start with
\* )]}', and decodes nothing of it.
C21_PrefixRequired ==
    (GotBody /\ ~HasPrefix(conn.body, jsonPrefix)) =>
        /\ HasPrefix(conn.res.err, PrefixErrorHead)
        /\ conn.res.val = <<>>

\* C22: a GET succeeds exactly when the status is 200 and a POST exactly when
\* it is 2xx; a request that fails returns an error naming the method, the
\* URL and the status, and no body.
C22_StatusRules ==
    conn.op # "" =>
        /\ conn.method = "GET" => (conn.http.err = "" <=> conn.status = 200)
        /\ conn.method = "POST" => (conn.http.err = "" <=> conn.status \div 100 = 2)
        /\ conn.http.err = "" => conn.http.body = conn.body
        /\ conn.http.err # "" =>
              /\ conn.http.err = (IF conn.method = "GET" THEN "Get " ELSE "Post ")
                                    \o conn.url \o ": status " \o ToString(conn.status)
              /\ conn.http.body = ""

\* -------------------------------------------------------------- the linter

\* C23: the commit-message linter applies its four rules in the order fewer
\* than 2 lines, second line longer than 1 character, subject longer than 70
\* characters, subject ending in '.', and returns the complaint of the first
\* rule that matches, none exactly when no rule matches; a subject of 70
\* characters passes the length rule and one of 71 does not.
C23_RuleOrder ==
    lint.checked =>
        LET lines == Split(lint.msg, "\n")
            tooFew == Len(lines) < 2
            noBlank == ~tooFew /\ Len(lines[2]) > 1
            tooLong == Len(lines[1]) > SubjectLimit
            dot == HasSuffix(lines[1], ".")
        IN  /\ tooFew => lint.complaint = "must have multiple lines"
            /\ (~tooFew /\ noBlank) =>
                  lint.complaint = "subject and body must be separated by blank line"
            /\ (~tooFew /\ ~noBlank /\ tooLong) =>
                  lint.complaint = "subject must be less than 70 chars"
            /\ (~tooFew /\ ~noBlank /\ ~tooLong /\ dot) =>
                  lint.complaint = "subject must not end in '.'"
            /\ lint.complaint = "" <=> ~(tooFew \/ noBlank \/ tooLong \/ dot)
            /\ (~tooFew /\ ~noBlank /\ ~dot) =>
                  (lint.complaint = "" <=> Len(lines[1]) <= SubjectLimit)

\* A message with a subject of 71 characters that ends in '.' and a second
\* line of two characters got the complaint of the second rule only.
C23_Witness ==
    /\ lint.checked
    /\ lint.msg = Repeat("s", SubjectLimit) \o "." \o "\nxy"
    /\ lint.complaint = "subject and body must be separated by blank line"

\* C24: for every commit message, the empty one included, a compliant message
\* gives a result that echoes the content without a message and the verdict
\* SUCCESSFUL; a non-compliant one gives a result with the complaint and no
\* content and the verdict FAILED with the message "/COMMIT_MSG: <complaint>".
C24_CommitMsgVerdict ==
    lint.checked =>
        IF lint.complaint = ""
        THEN /\ lint.rep = << [Name |-> "/COMMIT_MSG", Content |-> lint.msg,
                               Message |-> ""] >>
             /\ lint.verdict = [status |-> statusSuccessful, msg |-> ""]
        ELSE /\ lint.rep = << [Name |-> "/COMMIT_MSG", Content |-> "",
                               Message |-> lint.complaint] >>
             /\ lint.verdict = [status |-> statusFail,
                                msg |-> "/COMMIT_MSG: " \o lint.complaint]

\* filepath.Base for a name that does not end in '/'.
Basename(name) == Last(Split(name, "/"))

\* C25: a name ending in .java is java, one ending in .go is go, one ending
\* in .bzl or with the basename BUILD or WORKSPACE is bzl, the name
\* /COMMIT_MSG is commitmsg, any other name matches no language, and no name
\* matches two languages.
C25_Classification ==
    lint.classified =>
        /\ lint.langs =
              (IF HasSuffix(lint.name, ".java") THEN {"java"}
               ELSE IF HasSuffix(lint.name, ".go") THEN {"go"}
               ELSE IF \/ HasSuffix(lint.name, ".bzl")
                       \/ Basename(lint.name) \in {"BUILD", "WORKSPACE"}
                    THEN {"bzl"}
               ELSE IF lint.name = "/COMMIT_MSG" THEN {"commitmsg"}
               ELSE {})
        /\ Cardinality(lint.langs) <= 1

\* ------------------------------------------------------------ Format calls

\* The positions of the request whose file has no language tag.
EmptyTagged == {i \in 1..Len(formatCall.files) : formatCall.files[i].Language = ""}

\* C26: Format on a request in which a file, at any position, has an empty
\* language tag returns the error "file ... has empty language", calls no
\* formatter and adds nothing to the reply.
C26_EmptyLanguageRejected ==
    (formatCall.done /\ EmptyTagged # {}) =>
        /\ \E i \in EmptyTagged :
              formatCall.rep.err =
                 "file \"" \o formatCall.files[i].Name \o "\" has empty language"
        /\ formatCall.rep.invoked = <<>>
        /\ formatCall.rep.files = <<>>
        /\ ~formatCall.rep.panic

\* Format rejected a request of three files of which only the last has no
\* language tag.
C26_Witness ==
    /\ formatCall.done
    /\ Len(formatCall.files) = 3
    /\ EmptyTagged = {3}
    /\ formatCall.rep.err = "file \"y.go\" has empty language"

\* C27: when the formatter of one language group fails, Format returns its
\* error and the reply holds no result of any language group, in whatever
\* order the groups are visited.
C27_NoPartialResults ==
    (formatCall.done /\ EmptyTagged = {}
       /\ LanguagesOf(formatCall.files) \cap formatCall.toolFails # {}) =>
        /\ formatCall.rep.err = "exit status 1"
        /\ formatCall.rep.files = <<>>

\* --------------------------------------------------- toolFormatter.Format

\* The call is between its TempDir and its return.
InFlight(c) == tools.calls[c].pc \in {"write", "run", "read"}

\* C28: every call of the external-tool adapter that gets a temporary
\* directory gets one of its own, and however the call returns (success,
\* failure writing a file, non-zero exit of the tool, failure reading a
\* file) the directory is gone at the return: the directories on disk are
\* exactly those of the calls in flight, one each.
C28_WorkspaceRemoved ==
    /\ \A c \in ToolCalls :
          /\ tools.calls[c].pc = "done" => tools.calls[c].dir \notin tools.dirs
          /\ InFlight(c) => tools.calls[c].dir \in tools.dirs
    /\ \A c, d \in ToolCalls :
          (c # d /\ tools.calls[c].dir # 0) => tools.calls[c].dir # tools.calls[d].dir
    /\ \A dir \in tools.dirs : \E c \in ToolCalls : InFlight(c) /\ tools.calls[c].dir = dir

\* One call returned after a failure reading a file while another one, with
\* a directory of its own, is running its tool.
C28_Witness ==
    \E c, d \in ToolCalls :
        /\ tools.calls[c].pc = "done"
        /\ tools.calls[c].err = "ReadFile: no such file"
        /\ tools.calls[d].pc = "run"
        /\ tools.dirs = {tools.calls[d].dir}

\* ------------------------------------------------- the posted message

\* C29: the message posted with the terminal status is the ", "-join of the
\* per-file messages when the join has at most 1000 characters, otherwise
\* its first 995 characters followed by "..."; it never has more than 1000
\* characters.
C29_MessageTruncated ==
    judge.done =>
        /\ Len(judge.posted.msg) <= MessageLimit
        /\ judge.err = "" =>
              LET joined == Join(judge.msgs, ", ")
              IN  /\ Len(joined) <= MessageLimit => judge.posted.msg = joined
                  /\ Len(joined) > MessageLimit =>
                        /\ judge.posted.msg = SubSeq(joined, 1, 995) \o "..."
                        /\ Len(judge.posted.msg) = 998

\* Two complaints whose join has 1001 characters were posted as 995
\* characters and "...".
C29_Witness ==
    /\ judge.done
    /\ judge.err = ""
    /\ Len(judge.msgs) = 2
    /\ Len(Join(judge.msgs, ", ")) = MessageLimit + 1
    /\ HasSuffix(judge.posted.msg, "...")
    /\ Len(judge.posted.msg) = 998

\* The names of the files in a request.
RequestNames(req) == {req[i].Name : i \in 1..Len(req)}

\* C30: when two changes hold the same content in every file that the
\* filename rule of the UUID's language matches, the status and the message
\* posted for the UUID are the same on both, whatever the other files hold;
\* and the request handed to the formatter holds the matching files only.
C30_OnlyOwnLanguageCounts ==
    (/\ pair.done
     /\ \A n \in MatchedNames(pair.ch1, pair.language) :
            pair.ch1[n].Content = pair.ch2[n].Content)
    => /\ pair.v1 = pair.v2
       /\ RequestNames(pair.res1.req) = MatchedNames(pair.ch1, pair.language)
       /\ RequestNames(pair.res2.req) = MatchedNames(pair.ch2, pair.language)
       /\ pair.res1.req = pair.res2.req

\* The Go checker has failed a change for an unformatted Go file, and the
\* other change differs in the commit message, the build file (which the
\* build tool would reject) and the unmatched file.
C30_Witness ==
    /\ pair.done
    /\ pair.language = "go"
    /\ pair.ch1["a/BUILD"].Content # pair.ch2["a/BUILD"].Content
    /\ HasSuffix(pair.ch2["a/BUILD"].Content, "{")
    /\ pair.ch1["/COMMIT_MSG"].Content # pair.ch2["/COMMIT_MSG"].Content
    /\ pair.ch1["Readme.md"].Content # pair.ch2["Readme.md"].Content
    /\ pair.v1.status = statusFail
    /\ pair.v1.msg = "y.go: found a difference"
    /\ pair.v2 = pair.v1

\* ------------------------------------------------- Format and the registry

\* The languages of the request that the registry of the process lacks.
Unregistered == LanguagesOf(formatCall.files) \ formatCall.registry

\* C31: Format on a request that holds a file with a non-empty language tag
\* that is not in the registry returns an error and does not crash.
C31_UnregisteredLanguageError ==
    (formatCall.done /\ EmptyTagged = {} /\ Unregistered # {}) =>
        /\ ~formatCall.rep.panic
        /\ formatCall.rep.err # ""

\* ------------------------------------------- one language group of Format

\* strings.Contains(s, sub).
Contains(s, sub) ==
    \E i \in 1..(Len(s) - Len(sub) + 1) : SubSeq(s, i, i + Len(sub) - 1) = sub

\* C32: when the external tool exits non-zero the group yields no file
\* result, not even for the files the tool rewrote, and the error returned
\* carries what the tool wrote to its standard output and standard error.
C32_FailureCarriesOutput ==
    (batch.done /\ batch.run.exit # 0) =>
        /\ batch.res.files = <<>>
        /\ batch.res.err # ""
        /\ Contains(batch.res.err, batch.run.stderr)
        /\ Contains(batch.res.err, batch.run.stdout)

\* C33: after a successful run of the tool the first result of the group
\* has as its message what the tool wrote to standard output, and the other
\* results have no message.
C33_FirstRecordHasStdout ==
    (batch.done /\ batch.run.exit = 0) =>
        /\ Len(batch.res.files) = Len(batch.files)
        /\ batch.res.files[1].Message = batch.run.stdout
        /\ \A i \in 2..Len(batch.res.files) : batch.res.files[i].Message = ""

\* ------------------------------------------------------------- GetChange

\* The files of the list whose status is not "deleted".
Present == {n \in DOMAIN fetch.files : fetch.files[n].Status # "D"}

\* The platform answered the content request for n with a 2xx status and a
\* body that is base64.
ContentOK(n) ==
    /\ fetch.answers[n].status \in 200..299
    /\ fetch.answers[n].body # "<html>"

\* The file list came with a 2xx status and is JSON.
ListOK == fetch.listStatus \in 200..299 /\ fetch.listJSON

\* The names in a sequence of requests.
Requested == {fetch.requested[i] : i \in 1..Len(fetch.requested)}

\* C34: GetChange returns a Change only if the file list and the content of
\* every file that is not deleted were fetched and decoded; it sends no
\* content request for a deleted file, and sends each request at most once;
\* when the list or any content fetch fails it returns an error and no
\* Change at all. A Change returned holds the decoded content of every file
\* that is not deleted and no content for a deleted one.
C34_AllOrNothing ==
    fetch.done =>
        /\ fetch.res.err = "" <=> (ListOK /\ \A n \in Present : ContentOK(n))
        /\ Requested \subseteq Present
        /\ Len(fetch.requested) = Cardinality(Requested)
        /\ fetch.res.err # "" => fetch.res.val = <<>>
        /\ fetch.res.err = "" =>
              /\ DOMAIN fetch.res.val = DOMAIN fetch.files
              /\ Requested = Present
              /\ \A n \in DOMAIN fetch.files :
                    /\ fetch.res.val[n].Status = fetch.files[n].Status
                    /\ fetch.res.val[n].Content =
                          IF n \in Present THEN "package x\n" ELSE ""

\* GetChange failed on the content of the last file it asked for, after it
\* had fetched another one, and asked nothing for the deleted file although
\* the platform would have answered.
C34_Witness ==
    /\ fetch.done
    /\ ListOK
    /\ fetch.files["old.bzl"].Status = "D"
    /\ ContentOK("old.bzl")
    /\ fetch.requested = <<"/COMMIT_MSG", "pkg/x.go">>
    /\ fetch.answers["pkg/x.go"].status = 500
    /\ fetch.res.err # ""
    /\ fetch.res.val = <<>>

\* --------------------------------------- checkChange on a fetched change

\* The files of the fetched list that the rule of the UUID's language
\* matches, deleted or not.
Matching == MatchedNames(fetch.files, outcome.language)

\* The content GetChange left in a file: none for a deleted one.
Fetched(n) == IF fetch.files[n].Status = "D" THEN "" ELSE "package x\n"

\* The matching files that the tool left with another content, in the order
\* of the request.
Rewritten ==
    SelectSeq(outcome.res.req, LAMBDA f : outcome.toolOut[f.Name] # Fetched(f.Name))

\* C35: the request checkChange hands to the formatter holds exactly the
\* files of the fetched change whose name matches the rule of the language,
\* whatever their status; a deleted file is in it with empty content; and
\* for a tool language every file of the request, deleted or not, that the
\* tool left different yields a complaint, and the status is FAILED exactly
\* when the tool failed or there is such a file.
C35_DeletedFilesChecked ==
    (outcome.done /\ fetch.res.err = "") =>
        /\ RequestNames(outcome.res.req) = Matching
        /\ Len(outcome.res.req) = Cardinality(Matching)
        /\ \A i \in 1..Len(outcome.res.req) :
              /\ outcome.res.req[i].Content = Fetched(outcome.res.req[i].Name)
              /\ outcome.res.req[i].Language = outcome.language
        /\ (outcome.language \in {"go", "bzl"} /\ outcome.toolOk) =>
              /\ outcome.res.msgs =
                    [i \in 1..Len(Rewritten) |->
                        Rewritten[i].Name \o ": found a difference"]
              /\ outcome.posted.status =
                    IF Rewritten = <<>> THEN statusSuccessful ELSE statusFail
        /\ (outcome.language \in {"go", "bzl"} /\ ~outcome.toolOk) =>
              /\ outcome.posted.status = statusFail
              /\ outcome.posted.msg = "tool failure: exit status 1"

\* The bzl checker got the deleted old.bzl with empty content in its
\* request, the tool wrote into it, and the check was failed for it.
C35_Witness ==
    /\ outcome.done
    /\ outcome.language = "bzl"
    /\ fetch.files["old.bzl"].Status = "D"
    /\ "old.bzl" \notin Requested
    /\ outcome.res.req = << [Language |-> "bzl", Name |-> "old.bzl", Content |-> ""] >>
    /\ outcome.posted = [status |-> statusFail, msg |-> "old.bzl: found a difference"]

\* ------------------------------------------------------------- poll cycles

\* pendingLoop makes its query in this step.
QueryStep == pollPc = "sleep" /\ polls' = polls + 1

\* pendingLoop makes one round of its range loop in this step.
OfferStep == pollPc = "offer" /\ (pidx' # pidx \/ pollPc' # pollPc)

\* The query enqueues nothing; it yields the pending checks of the platform
\* or, when it fails, nothing; with nothing to offer the loop is back at the
\* head of the next cycle, otherwise it is at the first result.
QueryRule ==
    QueryStep =>
        /\ todo' = todo
        /\ pending' \in {<<>>, PendingChecksByScheme(checks)}
        /\ pending' = <<>> => pollPc' = "sleep"
        /\ pending' # <<>> => pollPc' = "offer" /\ pidx' = 1

\* A round of the range loop offers the result at the loop index, once, and
\* goes on with the next result or, after the last one, with the next cycle.
OfferRule ==
    OfferStep =>
        /\ todo' = IF Len(todo) < QueueCap THEN Append(todo, pending[pidx]) ELSE todo
        /\ IF pidx < Len(pending)
           THEN pollPc' = "offer" /\ pidx' = pidx + 1 /\ pending' = pending
           ELSE pollPc' = "sleep"

\* Nothing but a round of the range loop puts an item in the channel, and
\* the results of a query change only with the next query or after the
\* last round.
OnlyOffersEnqueue ==
    /\ Len(todo') > Len(todo) => OfferStep
    /\ pending' # pending => (QueryStep \/ (OfferStep /\ pidx = Len(pending)))

\* C36: a poll cycle whose query fails or returns nothing enqueues nothing
\* and leads to the next cycle, the loop never ends; a cycle whose query
\* returns pending checks offers each of them to the queue exactly once, in
\* the order returned.
C36_PollCycle ==
    /\ [](pollPc \in {"sleep", "offer"})
    /\ [](pollPc = "offer" => pidx \in 1..Len(pending))
    /\ [][QueryRule /\ OfferRule /\ OnlyOffersEnqueue]_vars

\* Two queries have failed while checks were pending: nothing was ever
\* offered, and the loop is at the head of its third cycle.
C36_Witness ==
    /\ polls = 2
    /\ pollPc = "sleep"
    /\ burst = <<>>
    /\ todo = <<>>
    /\ PendingChecksByScheme(checks) # <<>>

\* ------------------------------------------------------ sustained overload

\* The watched check is in the channel or being executed.
StarvedTaken ==
    \/ \E i \in 1..Len(todo) : todo[i].PatchSet = Starved.ps
    \/ \E r \in runs : r.pc.PatchSet = Starved.ps

\* C37: on a platform that keeps a check of patch set 1 pending and with a
\* serve loop slower than the poll loop, both loops run for ever and yet the
\* check of patch set 2 stays pending, is dropped in every poll cycle, is
\* never in the channel and never gets the RUNNING status (nor any other).
C37_Starvation ==
    /\ [](checks[Starved.ps][Starved.uuid] = statusUnset)
    /\ [](~StarvedTaken)
    /\ [](pollPc = "sleep" => Starved.ps \in dropped)
    /\ []<>(pollPc = "offer")
    /\ []<>(servePc = "call")
    /\ []<>(servePc = "recv")

\* After two more poll cycles that both dropped the watched check, the
\* channel is full again and Serve has finished the go check of patch set 1
\* in the meantime.
C37_Witness ==
    /\ pollPc = "sleep"
    /\ Starved.ps \in dropped
    /\ Starved.ps \in prevDropped
    /\ Len(todo) = QueueCap
    /\ checks[1]["fmt:go-a1"] \in Terminal
    /\ checks[Starved.ps][Starved.uuid] = statusUnset

====
